---------------------------- MODULE Spec2Model ----------------------------
(***************************************************************************)
(* A model of the retrieval-and-orchestration pipeline of the RAG document *)
(* application: the LLM operations of lib/rag.ts (queryDocuments,          *)
(* compareDocuments, detectContradictionsAndGaps, debateDocuments,         *)
(* assistWriting), their retry loops, and the regular-expression based     *)
(* extraction of structured results from model text.                       *)
(*                                                                         *)
(* The repository holds several revisions of lib/rag.ts.  The model names  *)
(* them by the file they are read from:                                    *)
(*   "rag"   src/src/lib/rag.ts      single-call compare, lexical fallback *)
(*   "p001"  src/unnamed/part_001    compare with a 3-attempt retry loop   *)
(*   "p002"  src/unnamed/part_002    Groq revision, summarize-then-        *)
(*                                   synthesize, 1-attempt loop, detect /  *)
(*                                   debate / assistWriting                *)
(*   "p003"  src/unnamed/part_003    first revision, embeddings only       *)
(***************************************************************************)
EXTENDS Integers, Sequences, FiniteSets, TLC

(***************************************************************************)
(* TEXT.  A string is a sequence of tokens; a token is a run of characters *)
(* the regular expressions of the code cannot tell apart: one special      *)
(* character, one section label, or a run of n ordinary characters.        *)
(* k is the token's kind and n the number of characters it stands for.     *)
(***************************************************************************)
Tok(kind, len) == [k |-> kind, n |-> len]

COLON == Tok(":", 1)
STAR == Tok("*", 1)
DASH == Tok("-", 1)
DOT == Tok("bullet", 1)
SP == Tok("sp", 1)
NL == Tok("nl", 1)
COMMA == Tok(",", 1)
W(len) == Tok("w", len)
ELLIPSIS == Tok("...", 3)

L_SIM == Tok("SIMILITUDES", 11)
L_DIF == Tok("DIFERENCIAS", 11)
L_RES == Tok("RESUMEN", 7)
L_CON == Tok("CONTRADICCIONES", 15)
L_VAC == Tok("VACIOS DE INFORMACION (accented)", 21)
L_VAC0 == Tok("VACIOS DE INFORMACION", 21)
L_CONCL == Tok("CONCLUSION", 10)
L_TEMA == Tok("Tema", 4)
L_DESC == Tok("Descripcion", 11)

RECURSIVE StrLen(_)
StrLen(s) == IF s = <<>> THEN 0 ELSE Head(s).n + StrLen(Tail(s))

IsSpace(t) == t.k \in {"sp", "nl"}

RECURSIVE TrimStart(_)
TrimStart(s) ==
  IF s # <<>> /\ IsSpace(Head(s)) THEN TrimStart(Tail(s)) ELSE s

RECURSIVE TrimEnd(_)
TrimEnd(s) ==
  IF s # <<>> /\ IsSpace(s[Len(s)]) THEN TrimEnd(SubSeq(s, 1, Len(s) - 1)) ELSE s

Trim_Id(s) == s

Trim(s) == TrimEnd(TrimStart(s))

\* The first index of s at or after j where P holds, Len(s) + 1 when none.
FirstFrom(s, j, P(_, _)) ==
  CHOOSE p \in j..(Len(s) + 1) :
    /\ (p = Len(s) + 1 \/ P(s, p))
    /\ \A q \in j..(p - 1) : ~P(s, q)

KindAt(s, i, kind) == i >= 1 /\ i <= Len(s) /\ s[i].k = kind

IsNL(s, i) == KindAt(s, i, "nl")

\* String.prototype.split('\n')
RECURSIVE Split(_)
Split(s) ==
  LET i == FirstFrom(s, 1, IsNL)
  IN IF i = Len(s) + 1 THEN <<s>>
     ELSE <<SubSeq(s, 1, i - 1)>> \o Split(SubSeq(s, i + 1, Len(s)))

\* Array.prototype.map
MapSeq(xs, F(_)) == [i \in 1..Len(xs) |-> F(xs[i])]

\* Array.prototype.join(sep)
RECURSIVE Join(_, _)
Join(xs, sep) ==
  IF xs = <<>> THEN <<>>
  ELSE IF Len(xs) = 1 THEN xs[1]
  ELSE xs[1] \o sep \o Join(Tail(xs), sep)

\* String.prototype.slice(0, count): a token cut in two leaves a run of
\* ordinary characters.
RECURSIVE Slice(_, _)
Slice(s, count) ==
  IF s = <<>> \/ count <= 0 THEN <<>>
  ELSE IF Head(s).n <= count
       THEN <<Head(s)>> \o Slice(Tail(s), count - Head(s).n)
       ELSE <<W(count)>>

\* Array.prototype.slice(0, count)
Take(xs, count) == SubSeq(xs, 1, IF Len(xs) < count THEN Len(xs) ELSE count)

StartsWith(s, kinds) == s # <<>> /\ s[1].k \in kinds

StartsWith2Stars(s) == Len(s) >= 2 /\ s[1].k = "*" /\ s[2].k = "*"

\* s.replace(/^[markers]\s*/, '')
StripMarker(s, kinds) ==
  IF StartsWith(s, kinds) THEN TrimStart(Tail(s)) ELSE s

\* s.replace(/\*\*/g, '')
RECURSIVE RemoveStarPairs(_)
RemoveStarPairs(s) ==
  IF s = <<>> THEN <<>>
  ELSE IF StartsWith2Stars(s) THEN RemoveStarPairs(SubSeq(s, 3, Len(s)))
  ELSE <<Head(s)>> \o RemoveStarPairs(Tail(s))

(***************************************************************************)
(* REGULAR EXPRESSIONS.  Every section pattern of the code has the shape   *)
(*   stars? LABEL :? stars? \s* ([\s\S]*?) (?= stop | $)                   *)
(* Its match is the leftmost one; the optional parts are greedy and the    *)
(* group is lazy, so the group runs from the end of the white space to the *)
(* first position where the look-ahead holds.                              *)
(***************************************************************************)
SkipOpt(s, j, kind) == IF KindAt(s, j, kind) THEN j + 1 ELSE j

\* \*{0,2}
SkipStars(s, j) == SkipOpt(s, SkipOpt(s, j, "*"), "*")

NotSpaceAt(s, i) == ~IsSpace(s[i])

\* \s*
SkipSpace(s, j) == FirstFrom(s, j, NotSpaceAt)

\* \*{0,2}LABEL at position p
StarLabelAt(s, p, kind) ==
  \/ KindAt(s, p, kind)
  \/ KindAt(s, p, "*") /\ KindAt(s, p + 1, kind)
  \/ KindAt(s, p, "*") /\ KindAt(s, p + 1, "*") /\ KindAt(s, p + 2, kind)

NoMatch == [found |-> FALSE, group |-> <<>>, defined |-> FALSE]

\* The group captured from position j up to the first position where Stop
\* holds or the end of the text.
Capture(s, j, Stop(_, _)) ==
  [found |-> TRUE,
   group |-> SubSeq(s, j, FirstFrom(s, j, Stop) - 1),
   defined |-> TRUE]


\* The match of  stars? LABEL :? stars? \s* (group) (?= Stop | $) ; stars
\* says whether the pattern has the two \*{0,2} parts.
SectionMatch(s, stars, kind, Stop(_, _)) ==
  LET At(t, p) == IF stars THEN StarLabelAt(t, p, kind) ELSE KindAt(t, p, kind)
      i == FirstFrom(s, 1, At)
      label == IF stars THEN SkipStars(s, i) ELSE i
      afterColon == SkipOpt(s, label + 1, ":")
      afterStars == IF stars THEN SkipStars(s, afterColon) ELSE afterColon
  IN IF i = Len(s) + 1 THEN NoMatch
     ELSE Capture(s, SkipSpace(s, afterStars), Stop)

\* \*{0,2}LABEL: at position p (the colon is required)
StarLabelColonAt(s, p, kind) ==
  StarLabelAt(s, p, kind) /\ KindAt(s, SkipStars(s, p) + 1, ":")

LabelColonAt(s, p, kind) == KindAt(s, p, kind) /\ KindAt(s, p + 1, ":")

NoStop(s, p) == FALSE

(***************************************************************************)
(* EXTRACTION of compareDocuments.                                         *)
(***************************************************************************)
MinItemLen == 10

FallbackChars == 200

GENERIC_COMPARE == <<Tok("Los documentos han sido comparados. ...", 91)>>

\* The revisions that parse with the star-tolerant patterns.
StarRevision(ver) == ver \in {"p000", "p002"}

\* The characters a bulleted line may start with.
Markers(ver) == IF StarRevision(ver) THEN {"-", "bullet"} ELSE {"-", "bullet", "*"}

\* similarities.slice(0, N)
MaxItems(ver) == IF ver = "rag" THEN 5 ELSE 10

StopSimilarities(ver, s, p) ==
  IF StarRevision(ver)
  THEN StarLabelAt(s, p, "DIFERENCIAS") \/ StarLabelColonAt(s, p, "RESUMEN")
  ELSE LabelColonAt(s, p, "DIFERENCIAS")

StopDifferences(ver, s, p) ==
  IF StarRevision(ver)
  THEN StarLabelColonAt(s, p, "RESUMEN")
  ELSE LabelColonAt(s, p, "RESUMEN")

similaritiesMatch(ver, content) ==
  LET Stop(s, p) == StopSimilarities(ver, s, p)
  IN SectionMatch(content, StarRevision(ver), "SIMILITUDES", Stop)

differencesMatch(ver, content) ==
  LET Stop(s, p) == StopDifferences(ver, s, p)
  IN SectionMatch(content, StarRevision(ver), "DIFERENCIAS", Stop)

summaryMatch(ver, content) ==
  SectionMatch(content, StarRevision(ver), "RESUMEN", NoStop)

\* block.split('\n').map(trim).filter(bulleted).map(strip marker, trim)
\*      .filter(length > 10)
BulletItems(ver, block) ==
  LET IsBullet(l) == Len(l) > 0 /\ StartsWith(l, Markers(ver))
      Strip(l) == Trim(StripMarker(l, Markers(ver)))
      LongEnough(x) == StrLen(x) > MinItemLen
  IN SelectSeq(MapSeq(SelectSeq(MapSeq(Split(block), Trim), IsBullet), Strip),
               LongEnough)

\* block.split('\n').map(trim).filter(not bulleted).join(' ').trim()
SummaryText(ver, block) ==
  LET Plain(l) ==
        /\ Len(l) > 0
        /\ ~StartsWith(l, {"-", "bullet"})
        /\ (StarRevision(ver) => ~StartsWith2Stars(l))
      joined == Trim(Join(SelectSeq(MapSeq(Split(block), Trim), Plain), <<SP>>))
  IN IF StarRevision(ver) THEN RemoveStarPairs(joined) ELSE joined

\* summary = content.slice(0, 200) + '...'
FallbackSummary(content) == Slice(content, FallbackChars) \o <<ELLIPSIS>>

\* A length test that also rejects a summary of exactly the minimum length.
OrGeneric_Inclusive(summary) ==
  IF summary = <<>> \/ StrLen(summary) <= MinItemLen THEN GENERIC_COMPARE
  ELSE summary

\* if (!summary || summary.length < 10) summary = generic
OrGeneric(summary) ==
  IF summary = <<>> \/ StrLen(summary) < MinItemLen THEN GENERIC_COMPARE
  ELSE summary

\* The object compareDocuments returns for the model text content.
ExtractCompare(ver, content) ==
  LET sm == similaritiesMatch(ver, content)
      dm == differencesMatch(ver, content)
      um == summaryMatch(ver, content)
      similarities == IF sm.found THEN BulletItems(ver, sm.group) ELSE <<>>
      differences == IF dm.found THEN BulletItems(ver, dm.group) ELSE <<>>
      summary0 == IF um.found THEN SummaryText(ver, um.group) ELSE <<>>
      summary1 == IF similarities = <<>> /\ differences = <<>> /\ summary0 = <<>>
                  THEN FallbackSummary(content) ELSE summary0
  IN [similarities |-> Take(similarities, MaxItems(ver)),
      differences |-> Take(differences, MaxItems(ver)),
      summary |-> OrGeneric(summary1)]

(***************************************************************************)
(* EXTRACTION of detectContradictionsAndGaps.                              *)
(***************************************************************************)
GENERIC_DETECT == <<Tok("Analisis completado de contradicciones ...", 63)>>

TOPIC_UNSPECIFIED == <<Tok("Sin especificar", 15)>>

TOPIC_MISSING == <<Tok("Informacion faltante", 20)>>

StopContradictions(s, p) ==
  \/ StarLabelColonAt(s, p, L_VAC.k)
  \/ LabelColonAt(s, p, L_VAC0.k)
  \/ StarLabelColonAt(s, p, "RESUMEN")

StopGaps(s, p) == StarLabelColonAt(s, p, "RESUMEN")

contradictionsMatch(content) ==
  SectionMatch(content, TRUE, "CONTRADICCIONES", StopContradictions)

\* /\*{0,2}VACIOS DE INFORMACION(accented):?|VACIOS DE INFORMACION:?\*{0,2}\s*
\*  ([\s\S]*?)(?=\*{0,2}RESUMEN:|$)/i
\* The alternation splits the whole pattern: its first branch ends at the
\* accented label's colon and has no group; only the second branch, the
\* unaccented label, captures.  At one position the first branch is tried
\* first.
gapsMatch(content) ==
  LET Branch1(s, p) == StarLabelAt(s, p, L_VAC.k)
      Branch2(s, p) == KindAt(s, p, L_VAC0.k)
      Either(s, p) == Branch1(s, p) \/ Branch2(s, p)
      i == FirstFrom(content, 1, Either)
      afterColon == SkipOpt(content, i + 1, ":")
  IN IF i = Len(content) + 1 THEN NoMatch
     ELSE IF Branch1(content, i)
          THEN [found |-> TRUE, group |-> <<>>, defined |-> FALSE]
          ELSE Capture(content, SkipSpace(content, SkipStars(content, afterColon)),
                       StopGaps)

\* clean.match(/LABEL:\s*([^,]+)/i) when commaStops, /LABEL:\s*(.+)/i when
\* not: the group is the run after the white space; when nothing follows
\* the white space the pattern gives one space back to the group.
FieldMatch(clean, kind, commaStops) ==
  LET Allowed(s, p) == p <= Len(s) /\ (commaStops => s[p].k # ",")
      Forbidden(s, p) == ~Allowed(s, p)
      Ok(s, p) ==
        /\ LabelColonAt(s, p, kind)
        /\ (Allowed(s, SkipSpace(s, p + 2)) \/ SkipSpace(s, p + 2) > p + 2)
      i == FirstFrom(clean, 1, Ok)
      d == SkipSpace(clean, i + 2)
  IN IF i = Len(clean) + 1 THEN NoMatch
     ELSE IF Allowed(clean, d)
          THEN [found |-> TRUE, defined |-> TRUE,
                group |-> SubSeq(clean, d, FirstFrom(clean, d, Forbidden) - 1)]
          ELSE [found |-> TRUE, defined |-> TRUE, group |-> <<clean[d - 1]>>]

\* The lines of a block that are bulleted once trimmed; the marker is
\* stripped from the line as it stands (a line that starts with white space
\* keeps its marker).
BulletLines(block) ==
  LET IsBullet(l) == StartsWith(Trim(l), {"-", "bullet"})
      Clean(l) == Trim(StripMarker(l, {"-", "bullet"}))
  IN MapSeq(SelectSeq(Split(block), IsBullet), Clean)

LongDescription(x) == StrLen(x.description) > MinItemLen

\* The contradictions of a block (the documents field of an entry, which no
\* other part of the program reads, is left out).
Contradictions(block) ==
  LET Entry(clean) ==
        LET tm == FieldMatch(clean, "Tema", TRUE)
            dm == FieldMatch(clean, "Descripcion", TRUE)
        IN [topic |-> IF tm.found THEN Trim(tm.group) ELSE TOPIC_UNSPECIFIED,
            description |-> IF dm.found THEN Trim(dm.group) ELSE clean]
  IN SelectSeq(MapSeq(BulletLines(block), Entry), LongDescription)

Gaps(block) ==
  LET Entry(clean) ==
        LET tm == FieldMatch(clean, "Tema", TRUE)
            dm == FieldMatch(clean, "Descripcion", FALSE)
        IN [topic |-> IF tm.found THEN Trim(tm.group) ELSE TOPIC_MISSING,
            description |-> IF dm.found THEN Trim(dm.group) ELSE clean]
  IN SelectSeq(MapSeq(BulletLines(block), Entry), LongDescription)

\* (match && match[1]): the group is defined and not the empty string
Truthy(m) == m.found /\ m.defined /\ m.group # <<>>

\* The object detectContradictionsAndGaps returns for the model text content.
ExtractDetect(content) ==
  LET cm == contradictionsMatch(content)
      gm == gapsMatch(content)
      um == summaryMatch("p002", content)
  IN [contradictions |-> IF Truthy(cm) THEN Contradictions(cm.group) ELSE <<>>,
      gaps |-> IF Truthy(gm) THEN Gaps(gm.group) ELSE <<>>,
      summary |-> IF Truthy(um) THEN RemoveStarPairs(Trim(um.group))
                  ELSE GENERIC_DETECT]

(***************************************************************************)
(* EXTRACTION of debateDocuments.  A document's display name is a string;  *)
(* a round label is "RONDA <digits> - <name>".                             *)
(***************************************************************************)
GENERIC_DEBATE == <<Tok("El debate ha concluido.", 23)>>

RONDA == Tok("RONDA n", 7)

RoundLabel(name) == <<RONDA, SP, DASH, SP>> \o name

\* s has the string t at position p
HasAt(s, p, t) ==
  /\ p >= 1
  /\ p + Len(t) - 1 <= Len(s)
  /\ SubSeq(s, p, p + Len(t) - 1) = t

StopRound(s, p) == KindAt(s, p, RONDA.k) \/ LabelColonAt(s, p, "CONCLUSION")

\* new RegExp(`RONDA \\d+ - ${escaped name}:?\\s*([\\s\\S]*?)
\*             (?=RONDA \\d+|CONCLUSION:|$)`, 'i')
roundMatch(content, name) ==
  LET At(s, p) == HasAt(s, p, RoundLabel(name))
      i == FirstFrom(content, 1, At)
      afterColon == SkipOpt(content, i + Len(RoundLabel(name)), ":")
  IN IF i = Len(content) + 1 THEN NoMatch
     ELSE Capture(content, SkipSpace(content, afterColon), StopRound)

RECURSIVE Rounds(_, _)
Rounds(content, names) ==
  IF names = <<>> THEN <<>>
  ELSE LET m == roundMatch(content, Head(names))
       IN (IF Truthy(m)
           THEN <<[documentName |-> Head(names), position |-> Trim(m.group)]>>
           ELSE <<>>) \o Rounds(content, Tail(names))

conclusionMatch(content) == SectionMatch(content, TRUE, "CONCLUSION", NoStop)

\* The object debateDocuments returns for the model text content and the
\* documents' display names.
ExtractDebate(content, names) ==
  LET cm == conclusionMatch(content)
  IN [rounds |-> Rounds(content, names),
      conclusion |-> IF cm.found THEN RemoveStarPairs(Trim(cm.group))
                     ELSE GENERIC_DEBATE]

(***************************************************************************)
(* MODEL TEXTS.  The texts the extraction is run on: free texts, any       *)
(* sequence of up to MaxLines lines drawn from Shapes, and formed texts,   *)
(* the three sections the comparison prompt asks for, rendered from their  *)
(* bullet items and their summary paragraph.                               *)
(***************************************************************************)
MaxLines == 3

MaxBullets == 2

MaxRepeat == 11

Shapes ==
  { <<L_SIM, COLON>>, <<L_DIF, COLON>>, <<L_RES, COLON>>,
    <<L_RES, COLON, SP, STAR, STAR>>, <<L_VAC, COLON>>, <<L_VAC0, COLON>>,
    <<L_CONCL, COLON>>, <<DASH, SP, W(11)>>, <<DASH, SP, W(3)>>,
    <<W(3)>>, <<W(120)>> }

\* All sequences over S of length at most n.
SeqsUpTo(S, n) == UNION {[1..m -> S] : m \in 0..n}

\* A bullet item: its marker and its text.
Item(marker, text) == [marker |-> marker, text |-> text]

LongItem == <<W(11), SP, W(3)>>

OtherItem == <<W(12)>>

ShortItem == <<W(3)>>

LabelItem == <<W(5), SP, L_RES, SP, W(5)>>

SimItems ==
  { Item(DASH, LongItem), Item(DOT, OtherItem), Item(STAR, LongItem),
    Item(DASH, ShortItem), Item(DASH, LabelItem) }

DifItems == { Item(DASH, LongItem), Item(DASH, ShortItem) }

Paragraphs == { <<W(11), SP, W(11)>>, <<W(3)>>, <<W(11), NL, W(11)>> }

BulletLine(item) == <<item.marker, SP>> \o item.text \o <<SP>>

RenderBullets(items) == Join(MapSeq(items, BulletLine), <<NL>>)

\* The text of a formed input, laid out as the prompt of compareDocuments
\* asks (src/src/lib/rag.ts:311-322).
RenderFormed(in) ==
  <<L_SIM, COLON, NL>> \o RenderBullets(in.sims) \o <<NL, NL>>
  \o <<L_DIF, COLON, NL>> \o RenderBullets(in.difs) \o <<NL, NL>>
  \o <<L_RES, COLON, NL>> \o in.para

FreeInputs ==
  { [formed |-> FALSE, lines |-> ls] : ls \in SeqsUpTo(Shapes, MaxLines) }

FormedInputs ==
  { [formed |-> TRUE, sims |-> a, difs |-> b, para |-> c] :
      a \in SeqsUpTo(SimItems, MaxBullets),
      b \in SeqsUpTo(DifItems, MaxBullets),
      c \in Paragraphs }

\* Formed texts with many bullets: n times the same long item.
RepeatedInputs ==
  { [formed |-> TRUE, sims |-> [i \in 1..n |-> Item(DASH, LongItem)],
     difs |-> [i \in 1..m |-> Item(DOT, OtherItem)], para |-> <<W(11), SP, W(11)>>] :
      n \in (MaxBullets + 1)..MaxRepeat, m \in {0, MaxRepeat} }

\* Texts with one section of many bullets, as the contradictions prompt asks
\* for them: a label line and n times the same bulleted line.
ListInputs ==
  { [formed |-> FALSE,
     lines |-> << <<label, COLON>> >> \o [i \in 1..n |-> <<DASH, SP, W(12)>>]] :
      label \in {L_CON, L_VAC0}, n \in (MaxBullets + 1)..MaxRepeat }

Render(in) == IF in.formed THEN RenderFormed(in) ELSE Join(in.lines, <<NL>>)

\* The display names of the two documents of a debate.
NameA == <<Tok("a", 1)>>

NameAB == <<Tok("a", 1), Tok("b", 1)>>

\* What the round labelled with a name says in a debate text.
RoundText(name) == IF name = NameA THEN <<W(11)>> ELSE <<W(12)>>

\* Debate texts: up to two labelled rounds, of either document and in any
\* order, and a conclusion or none.
DebateInputs ==
  { [formed |-> FALSE,
     rounds |-> ns,
     lines |-> [i \in 1..Len(ns) |->
                  RoundLabel(ns[i]) \o <<COLON, SP>> \o RoundText(ns[i])]
               \o (IF concl THEN << <<L_CONCL, COLON, SP, W(13)>> >> ELSE <<>>)] :
      ns \in SeqsUpTo({NameA, NameAB}, 2), concl \in BOOLEAN }

(***************************************************************************)
(* DOCUMENTS, CHUNKS AND EMBEDDINGS.                                       *)
(***************************************************************************)
chunkSize == 500

overlap == 100

topK == 3

PreviewChars == 150

\* text.split(/\s+/): the maximal runs of characters that are not white
\* space, with an empty string before leading and after trailing white space.
RECURSIVE SplitWords(_)
SplitWords(text) ==
  LET SpaceAt(s, p) == IsSpace(s[p])
      i == FirstFrom(text, 1, SpaceAt)
  IN IF i = Len(text) + 1 THEN <<text>>
     ELSE <<SubSeq(text, 1, i - 1)>>
          \o SplitWords(SubSeq(text, SkipSpace(text, i), Len(text)))

\* words.slice(from, to) with 0-based bounds
SliceWords(words, from, to) ==
  SubSeq(words, from + 1, IF to < Len(words) THEN to ELSE Len(words))

\* for (let i = 0; i < words.length; i += size - over) { ... }
RECURSIVE ChunksFrom(_, _, _, _)
ChunksFrom(words, i, size, over) ==
  IF i >= Len(words) THEN <<>>
  ELSE LET chunk == Join(SliceWords(words, i, i + size), <<SP>>)
       IN (IF Trim(chunk) # <<>> THEN <<Trim(chunk)>> ELSE <<>>)
          \o ChunksFrom(words, i + (size - over), size, over)

splitIntoChunks(text, size, over) == ChunksFrom(SplitWords(text), 0, size, over)

\* toLowerCase: the words of the model that have capitals.
Lower(t) == IF t.k \in {"Alfa", "ALFA"} THEN Tok("alfa", 4) ELSE t

toLowerCase(s) == MapSeq(s, Lower)

\* String.prototype.includes
Includes(s, t) == \E p \in 1..(Len(s) + 1) : HasAt(s, p, t)

\* The embedding model, an opaque function from text to vector: here the
\* number of times two words occur, and a constant component that keeps the
\* vector away from zero.
Count(s, kind) == Cardinality({i \in 1..Len(s) : s[i].k = kind})

Embed(text) ==
  <<Count(toLowerCase(text), "alfa"), Count(toLowerCase(text), "beta"), 1>>

\* The files a user uploads: a name and the text parseDocument extracts.
File(name, text) == [name |-> name, text |-> text]

Files ==
  { File(NameA, <<Tok("Alfa", 4), SP, Tok("de", 2), SP, Tok("beta", 4), NL>>),
    File(NameAB, <<Tok("gamma", 5), SP, Tok("beta", 4)>>),
    File(<<Tok("c", 1)>>, <<SP, NL>>),
    File(<<Tok("d", 1)>>, <<>>) }

\* The questions a user asks.
Queries ==
  { <<Tok("ALFA", 4)>>,
    <<Tok("de", 2)>>,
    <<Tok("alfa", 4), SP, Tok("beta", 4)>>,
    <<Tok("delta", 5)>> }

(***************************************************************************)
(* ERRORS AND RESPONSES.                                                   *)
(***************************************************************************)
\* An Error, by the message the code gives it; status is the HTTP status an
\* API error carries in its message (0 when it carries none).
Err(kind) == [kind |-> kind, status |-> 0]

ApiErr(status) == [kind |-> "ApiError", status |-> status]

NoError == Err("none")

\* A response of the inference service.
\*   status   0 when fetch itself rejects (network failure), else the status
\*   json     whether response.json() resolves
\*   error    whether the body carries an error object
\*   choices  the body's choices: "absent", "empty" or "present"
\*   content  choices[0].message.content
Response(status, json, error, choices, text) ==
  [status |-> status, json |-> json, error |-> error, choices |-> choices,
   content |-> text]

R429 == Response(429, TRUE, TRUE, "absent", <<>>)

R500 == Response(500, TRUE, TRUE, "absent", <<>>)

NetFail == Response(0, FALSE, FALSE, "absent", <<>>)

BadJson == Response(200, FALSE, FALSE, "absent", <<>>)

Ok200(text) == Response(200, TRUE, FALSE, "present", text)

\* A well-formed answer to the comparison prompt.
GoodCompareText ==
  RenderFormed([sims |-> <<Item(DASH, LongItem)>>,
                difs |-> <<Item(DASH, LongItem), Item(DASH, ShortItem)>>,
                para |-> <<W(11), SP, W(11)>>])

\* An answer to the contradictions prompt.
GoodDetectText ==
  <<L_CON, COLON, NL, DASH, SP, W(12), NL, NL, L_VAC, COLON, NL, DASH, SP,
    W(13), NL, NL, L_RES, COLON, NL, W(11), SP, W(11)>>

\* An answer to the debate prompt.
GoodDebateText ==
  RoundLabel(NameAB) \o <<COLON, NL, W(11), NL, NL>> \o RoundLabel(NameA)
  \o <<COLON, NL, W(12), NL, NL, L_CONCL, COLON, NL, W(11), SP, W(11)>>

PlainText == <<W(11), SP, W(3)>>

\* What the service may answer to a call.
Responses(texts) ==
  {R429, R500, NetFail, BadJson,
   Response(200, TRUE, TRUE, "present", PlainText),
   Response(200, TRUE, FALSE, "absent", <<>>),
   Response(200, TRUE, FALSE, "empty", <<>>),
   Ok200(<<>>)}
  \cup {Ok200(t) : t \in texts}

(***************************************************************************)
(* RANKING.                                                                *)
(***************************************************************************)
\* Array.prototype.sort with the comparator (a, b) => b.x - a.x: a stable
\* sort into descending order; Gt(a, b) says a ranks strictly above b.
SortDesc(xs, Gt(_, _)) ==
  LET n == Len(xs)
      Before(j, i) == Gt(xs[j], xs[i]) \/ (~Gt(xs[i], xs[j]) /\ j < i)
      rank(i) == Cardinality({j \in 1..n : j # i /\ Before(j, i)}) + 1
  IN [r \in 1..n |-> xs[CHOOSE i \in 1..n : rank(i) = r]]

\* Array.prototype.flatMap / nested forEach: the concatenation of the lists
RECURSIVE Flatten(_)
Flatten(xss) == IF xss = <<>> THEN <<>> ELSE Head(xss) \o Flatten(Tail(xss))

\* The similarity of lexical ranking, matchCount / queryWords.length, kept
\* as the pair of its terms (0 / 0 is NaN).
Ratio(num, den) == [num |-> num, den |-> den]

RatioPositive_NonNegative(r) == r.den > 0 /\ r.num >= 0

RatioPositive(r) == r.den > 0 /\ r.num > 0

RatioGt(a, b) == a.similarity.num * b.similarity.den > b.similarity.num * a.similarity.den

\* The length a word of the query must exceed to count: 2 in
\* findRelevantChunksSimple, 3 in the keyword search of queryDocuments.
MinTokenLength(rev) == IF rev = "rag" THEN 2 ELSE 3

\* The words of a query that count: longer than minLen characters.
QueryWords(q, minLen) ==
  LET Long(w) == StrLen(w) > minLen
  IN SelectSeq(SplitWords(toLowerCase(q)), Long)

MatchCount(words, chunk) ==
  Cardinality({i \in 1..Len(words) : Includes(toLowerCase(chunk), words[i])})

findRelevantChunksSimple(q, docs, k) ==
  LET queryWords == QueryWords(q, 2)
      Of(doc) ==
        LET Src(chunk) ==
              [text |-> chunk, documentId |-> doc.id, documentName |-> doc.name,
               similarity |-> Ratio(MatchCount(queryWords, chunk), Len(queryWords))]
            Hit(src) == RatioPositive(src.similarity)
        IN SelectSeq(MapSeq(doc.chunks, Src), Hit)
  IN Take(SortDesc(Flatten(MapSeq(docs, Of)), RatioGt), k)

\* The keyword search queryDocuments does in production (part_000,
\* part_002): query.split(' '), words longer than 3, previews of 150
\* characters.  A query of the model has single spaces only.
KeywordSources(q, docs) ==
  LET keywords == QueryWords(q, 3)
      Of(doc) ==
        LET Scored(chunk) ==
              [text |-> chunk, documentId |-> doc.id, documentName |-> doc.name,
               similarity |-> Ratio(MatchCount(keywords, chunk), Len(keywords))]
            Hit(src) == src.similarity.num > 0
        IN SelectSeq(MapSeq(doc.chunks, Scored), Hit)
      Preview(src) ==
        [src EXCEPT !.text = Slice(src.text, PreviewChars) \o <<ELLIPSIS>>]
  IN MapSeq(Take(SortDesc(Flatten(MapSeq(docs, Of)), RatioGt), topK), Preview)

\* cosineSimilarity(a, b) = dot / (|a| * |b|), kept as its three terms: the
\* dot product and the two squared magnitudes.
Dot(a, b) == a[1] * b[1] + a[2] * b[2] + a[3] * b[3]

cosineSimilarity(a, b) == [dot |-> Dot(a, b), magA |-> Dot(a, a), magB |-> Dot(b, b)]

\* The quotient is NaN exactly when the divisor is 0: the dividend is then 0
\* as well, and 0 / 0 is NaN.
IsNaN(sim) == sim.magA * sim.magB = 0

CosineGt_Unsigned(x, y) ==
  x.similarity.dot * x.similarity.dot * y.similarity.magB
    > y.similarity.dot * y.similarity.dot * x.similarity.magB

\* x.similarity > y.similarity for two similarities to the same query
\* vector (magA is shared and positive): dot_x / |b_x| > dot_y / |b_y|.
CosineGt(x, y) ==
  LET dx == x.similarity.dot
      dy == y.similarity.dot
      l == dx * dx * y.similarity.magB
      r == dy * dy * x.similarity.magB
  IN IF dx >= 0 /\ dy < 0 THEN TRUE
     ELSE IF dx < 0 /\ dy >= 0 THEN FALSE
     ELSE IF dx >= 0 THEN l > r
     ELSE l < r

NameOf(docs, id) ==
  IF \E i \in 1..Len(docs) : docs[i].id = id
  THEN docs[CHOOSE i \in 1..Len(docs) : docs[i].id = id].name
  ELSE <<Tok("Unknown", 7)>>

\* The semantic ranking of findRelevantChunks (rag.ts, part_001) and of
\* queryDocuments (part_000, part_002, with previews and the stored name).
SemanticSources(rev, queryEmbedding, store, docs) ==
  LET Src(chunk) ==
        [text |-> chunk.text, documentId |-> chunk.documentId,
         documentName |-> IF rev \in {"p000", "p002"} THEN chunk.documentName
                          ELSE NameOf(docs, chunk.documentId),
         similarity |-> cosineSimilarity(queryEmbedding, chunk.embedding)]
      Preview(src) ==
        IF rev \in {"p000", "p002"}
        THEN [src EXCEPT !.text = Slice(src.text, PreviewChars) \o <<ELLIPSIS>>]
        ELSE src
  IN MapSeq(Take(SortDesc(MapSeq(store, Src), CosineGt), topK), Preview)

(***************************************************************************)
(* STATE.                                                                  *)
(*   ver                   the revision of lib/rag.ts that is running      *)
(*   isProduction          import.meta.env.PROD                            *)
(*   worker                the module's worker: "null" or "created"        *)
(*   chunksWithEmbeddings  the module's embedding store                    *)
(*   documents             the Documents uploadDocument has returned       *)
(*   uploads               how many files were handed to uploadDocument    *)
(*   lastUpload            how the last uploadDocument settled             *)
(*   op, pc                the operation in progress and its position      *)
(*   query, sources        queryDocuments' argument and retrieved Sources  *)
(*   attempt, lastError    the locals of compareDocuments' retry loop      *)
(*   summaries             per document: "pending", "text", "placeholder"  *)
(*   log                   the calls and waits of the operation, in order  *)
(*   outcome, error, result  how the operation's promise settled           *)
(*   xin, content, xop, xver, xres  a model text and what an extraction    *)
(*                         made of it (SpecExtract), or the argument of a  *)
(*                         function and what it returned (SpecPure)        *)
(***************************************************************************)
VARIABLES ver, isProduction, worker, chunksWithEmbeddings, documents, uploads,
          lastUpload, op, pc, query, sources, attempt, lastError, summaries,
          log, outcome, error, result, xin, content, xop, xver, xres,
          embedCalls, toWorker, toMain, handlers, instance, uploading,
          messages, isLoading, uiError, run

\* The variables of the embedding protocol and of the user interface; no
\* step of the other specifications changes them.
evars == <<embedCalls, toWorker, toMain, handlers, instance, uploading>>

uvars == <<messages, isLoading, uiError, run>>

ovars == <<ver, isProduction, worker, chunksWithEmbeddings, documents, uploads,
           lastUpload, op, pc, query, sources, attempt, lastError, summaries,
           log, outcome, error, result, evars, uvars>>

xvars == <<xin, content, xop, xver, xres, evars, uvars>>

vars == <<ovars, xvars>>

Revisions == {"rag", "p000", "p001", "p002", "p003"}

MaxUploads == 2

UNDEFINED == <<Tok("undefined", 9)>>

NoResult == [none |-> TRUE]

NoResponse == Response(0, FALSE, FALSE, "none", <<>>)

\* What an operation did, for its log: a synthesis or inference call and the
\* response it got, the summary call of the doc-th document and its
\* response, or a wait of ms milliseconds.
Event(ev, doc, ms, resp) == [ev |-> ev, doc |-> doc, ms |-> ms, resp |-> resp]

Call(resp) == Event("call", 0, 0, resp)

SummaryCall(doc, resp) == Event("summary", doc, 0, resp)

Wait(ms) == Event("wait", 0, ms, NoResponse)

\* How a generateEmbedding call can settle: with the vector, with the worker's
\* error message, by the 60 s timer (absent from part_003), or by getWorker
\* throwing because the Worker cannot be constructed.
EmbedOutcomes(rev, w) ==
  {"result", "error"}
  \cup (IF rev = "p003" THEN {} ELSE {"timeout"})
  \cup (IF w = "null" THEN {"init"} ELSE {})

EmbedError(how) ==
  Err(CASE how = "error" -> "WorkerError"
        [] how = "timeout" -> "EmbeddingTimeout"
        [] OTHER -> "WorkerInit")

WorkerAfter(w, how) == IF how = "init" THEN w ELSE "created"

Idle ==
  /\ op = "none"
  /\ pc = "idle"

XFixed ==
  /\ xin = [kind |-> "none"]
  /\ content = <<>>
  /\ xop = "none"
  /\ xver = "none"
  /\ xres = NoResult

EFixed ==
  /\ embedCalls = <<>>
  /\ toWorker = <<>>
  /\ toMain = <<>>
  /\ handlers = <<>>
  /\ instance = "null"
  /\ uploading = [state |-> "none"]

UFixed ==
  /\ messages = <<>>
  /\ isLoading = FALSE
  /\ uiError = "null"
  /\ run = "none"

Init ==
  /\ ver \in Revisions
  /\ isProduction \in BOOLEAN
  /\ worker = "null"
  /\ chunksWithEmbeddings = <<>>
  /\ documents = <<>>
  /\ uploads = 0
  /\ lastUpload = "none"
  /\ op = "none"
  /\ pc = "idle"
  /\ query = <<>>
  /\ sources = <<>>
  /\ attempt = 0
  /\ lastError = NoError
  /\ summaries = <<>>
  /\ log = <<>>
  /\ outcome = "none"
  /\ error = NoError
  /\ result = NoResult
  /\ XFixed
  /\ EFixed
  /\ UFixed

opvars == <<op, pc, query, sources, attempt, lastError, summaries, log,
            outcome, error, result>>

(***************************************************************************)
(* uploadDocument(file), from the call to the settling of its promise.     *)
(* how is the outcome of the generateEmbedding call on the k-th chunk      *)
(* ("result" for every chunk when k is the number of chunks).              *)
(***************************************************************************)
StoreEntry(rev, chunk, id, name) ==
  [text |-> chunk, embedding |-> Embed(chunk), documentId |-> id,
   documentName |-> IF rev = "p002" THEN name ELSE UNDEFINED]

Document(id, f, chunks) ==
  [id |-> id, name |-> f.name, content |-> f.text, chunks |-> chunks]

uploadDocument(f, k, how) ==
  /\ Idle
  /\ uploads < MaxUploads
  /\ uploads' = uploads + 1
  /\ LET id == uploads + 1
         chunks == splitIntoChunks(f.text, chunkSize, overlap)
         embeds == ver = "p003" \/ ~isProduction
         Entry(chunk) == StoreEntry(ver, chunk, id, f.name)
     IN IF Trim(f.text) = <<>>
        THEN /\ k = 0
             /\ how = "result"
             /\ lastUpload' = "EmptyDocument"
             /\ UNCHANGED <<worker, chunksWithEmbeddings, documents>>
        ELSE IF ~embeds
        THEN /\ k = 0
             /\ how = "result"
             /\ lastUpload' = "resolved"
             /\ documents' = Append(documents, Document(id, f, chunks))
             /\ UNCHANGED <<worker, chunksWithEmbeddings>>
        ELSE /\ k \in 0..Len(chunks)
             /\ how \in EmbedOutcomes(ver, IF k = 0 THEN worker ELSE "created")
             /\ (how = "result") = (k = Len(chunks))
             /\ chunksWithEmbeddings' =
                  chunksWithEmbeddings \o MapSeq(SubSeq(chunks, 1, k), Entry)
             /\ worker' = IF k > 0 THEN "created" ELSE WorkerAfter(worker, how)
             /\ IF how # "result" /\ ver = "p003"
                THEN /\ lastUpload' = "rejected"
                     /\ UNCHANGED documents
                ELSE /\ lastUpload' = "resolved"
                     /\ documents' = Append(documents, Document(id, f, chunks))
  /\ UNCHANGED <<ver, isProduction, opvars, xvars>>

(***************************************************************************)
(* queryDocuments(query, documents).                                       *)
(***************************************************************************)
NO_INFO == <<Tok("No se encontro informacion relevante en los documentos.", 55)>>

NO_ANSWER == <<Tok("No se pudo generar una respuesta.", 33)>>

QueryResponse(answer, srcs) == [answer |-> answer, sources |-> srcs]

\* The promise of the operation settles.
Settled(kind, err, res) ==
  /\ pc' = "done"
  /\ outcome' = kind
  /\ error' = err
  /\ result' = res

\* The operation goes on to its next await.
Pending(next) ==
  /\ pc' = next
  /\ outcome' = "pending"
  /\ UNCHANGED <<error, result>>

\* if (sources.length === 0) return { answer: 'No se encontro ...' }
AfterRetrieval(srcs) ==
  /\ sources' = srcs
  /\ IF srcs = <<>>
     THEN Settled("resolved", NoError, QueryResponse(NO_INFO, <<>>))
     ELSE Pending("fetch")

Fallback(rev) == rev \in {"rag", "p001"}

OwnRetrieval(rev) == rev \in {"p000", "p002"}

StartQuery(q) ==
  /\ Idle
  /\ op' = "query"
  /\ query' = q
  /\ IF documents = <<>>
     THEN /\ sources' = <<>>
          /\ Settled("rejected", Err("NoDocuments"), NoResult)
     ELSE IF Fallback(ver)
     THEN IF isProduction \/ chunksWithEmbeddings = <<>>
          THEN AfterRetrieval(findRelevantChunksSimple(q, documents, topK))
          ELSE sources' = <<>> /\ Pending("embed")
     ELSE IF OwnRetrieval(ver)
     THEN IF isProduction
          THEN sources' = KeywordSources(q, documents) /\ Pending("fetch")
          ELSE IF chunksWithEmbeddings = <<>>
          THEN /\ sources' = <<>>
               /\ Settled("rejected", Err("NoEmbeddings"), NoResult)
          ELSE sources' = <<>> /\ Pending("embed")
     ELSE IF chunksWithEmbeddings = <<>>
          THEN AfterRetrieval(<<>>)
          ELSE sources' = <<>> /\ Pending("embed")
  /\ UNCHANGED <<ver, isProduction, worker, chunksWithEmbeddings, documents,
                 uploads, lastUpload, attempt, lastError, summaries, log,
                 xvars>>

\* The generateEmbedding(query) call of retrieval settles.
QueryEmbedded(how) ==
  /\ op = "query"
  /\ pc = "embed"
  /\ how \in EmbedOutcomes(ver, worker)
  /\ worker' = WorkerAfter(worker, how)
  /\ LET semantic == SemanticSources(ver, Embed(query), chunksWithEmbeddings,
                                     documents)
     IN IF how = "result"
        THEN IF OwnRetrieval(ver)
             THEN sources' = semantic /\ Pending("fetch")
             ELSE AfterRetrieval(semantic)
        ELSE IF Fallback(ver)
        THEN AfterRetrieval(findRelevantChunksSimple(query, documents, topK))
        ELSE /\ sources' = <<>>
             /\ Settled("rejected", EmbedError(how), NoResult)
  /\ UNCHANGED <<ver, isProduction, chunksWithEmbeddings, documents, uploads,
                 lastUpload, op, query, attempt, lastError, summaries, log,
                 xvars>>

IsOk(resp) == resp.status >= 200 /\ resp.status <= 299

\* What the try block of queryDocuments throws on a response (NoError when
\* it returns).
QueryThrows(rev, resp) ==
  IF resp.status = 0 THEN Err("NetworkError")
  ELSE IF ~IsOk(resp)
  THEN IF resp.status = 429 /\ rev # "p003" THEN Err("RateLimit")
       ELSE ApiErr(resp.status)
  ELSE IF ~resp.json THEN Err("SyntaxError")
  ELSE IF resp.choices = "absent" THEN Err("TypeError")
  ELSE NoError

\* data.choices[0]?.message?.content || 'No se pudo generar una respuesta.'
Answer(resp) ==
  IF resp.choices = "present" /\ resp.content # <<>> THEN resp.content
  ELSE NO_ANSWER

\* catch (error) { throw new Error('Error al comunicarse ...') } in rag.ts,
\* part_001 and part_003; throw error in part_000 and part_002.
QueryCatch(rev, err) == IF OwnRetrieval(rev) THEN err ELSE Err("CommError")

\* The fetch of queryDocuments settles with resp.
QueryFetched(resp) ==
  /\ op = "query"
  /\ pc = "fetch"
  /\ log' = Append(log, Call(resp))
  /\ LET thrown == QueryThrows(ver, resp)
     IN IF thrown # NoError
        THEN Settled("rejected", QueryCatch(ver, thrown), NoResult)
        ELSE Settled("resolved", NoError,
                     QueryResponse(Answer(resp),
                                   IF ver = "p003" THEN <<>> ELSE sources))
  /\ UNCHANGED <<ver, isProduction, worker, chunksWithEmbeddings, documents,
                 uploads, lastUpload, op, query, sources, attempt, lastError,
                 summaries, xvars>>

(***************************************************************************)
(* compareDocuments, detectContradictionsAndGaps, debateDocuments.         *)
(***************************************************************************)
\* A retry loop that gives up one attempt early.
maxRetries_Short(rev) == IF rev = "p001" THEN 2 ELSE 1

\* const maxRetries = 3 (part_001), 1 (part_000, part_002); rag.ts has no
\* loop, part_003 has no compareDocuments.
maxRetries(rev) == IF rev = "p001" THEN 3 ELSE 1

HasLoop(rev) == rev \in {"p000", "p001", "p002"}

Summarizes_Never(rev) == FALSE

Summarizes(rev) == rev \in {"p000", "p002"}

\* The operations a revision exports, besides queryDocuments.
Operations(rev) ==
  CASE rev = "p003" -> {}
    [] rev = "p002" -> {"compare", "detect", "debate", "assist"}
    [] OTHER -> {"compare"}

MinDocuments_One(o) == 1

MinDocuments(o) == IF o = "assist" THEN 1 ELSE 2

SummaryDelay == 1000

SuggestionsDelay == 500

FirstWait == 10000

SecondWait == 30000

StartOperation(o) ==
  /\ Idle
  /\ o \in Operations(ver)
  /\ op' = o
  /\ IF Len(documents) < MinDocuments(o)
     THEN /\ Settled("rejected", Err("NotEnoughDocuments"), NoResult)
          /\ UNCHANGED summaries
     ELSE IF Summarizes(ver) /\ o # "assist"
     THEN /\ summaries' = [i \in 1..Len(documents) |-> "pending"]
          /\ Pending("summaries")
     ELSE /\ Pending("fetch")
          /\ UNCHANGED summaries
  /\ UNCHANGED <<ver, isProduction, worker, chunksWithEmbeddings, documents,
                 uploads, lastUpload, query, sources, attempt, lastError, log,
                 xvars>>

\* A summary that takes whatever content the answer holds, an empty one too.
SummaryOf_NoDefault(resp) ==
  IF IsOk(resp) /\ resp.json /\ resp.choices = "present"
  THEN "text"
  ELSE "placeholder"

\* generateDocumentSummary: the content of the answer, or the placeholder
\* 'Documento: <name>' on any failure or empty content.
SummaryOf(resp) ==
  IF IsOk(resp) /\ resp.json /\ resp.choices = "present" /\ resp.content # <<>>
  THEN "text"
  ELSE "placeholder"

\* One of the summary calls issued by Promise.all settles.
SummarySettled(i, resp) ==
  /\ pc = "summaries"
  /\ i \in 1..Len(summaries)
  /\ summaries[i] = "pending"
  /\ summaries' = [summaries EXCEPT ![i] = SummaryOf(resp)]
  /\ log' = Append(log, SummaryCall(i, resp))
  /\ pc' = IF \A j \in 1..Len(summaries) : j = i \/ summaries[j] # "pending"
           THEN "delay" ELSE "summaries"
  /\ UNCHANGED <<ver, isProduction, worker, chunksWithEmbeddings, documents,
                 uploads, lastUpload, op, query, sources, attempt, lastError,
                 outcome, error, result, xvars>>

\* await new Promise(resolve => setTimeout(resolve, 1000))
DelayElapsed ==
  /\ pc = "delay"
  /\ log' = Append(log, Wait(IF op = "assist" THEN SuggestionsDelay
                             ELSE SummaryDelay))
  /\ pc' = IF op = "assist" THEN "suggest" ELSE "fetch"
  /\ UNCHANGED <<ver, isProduction, worker, chunksWithEmbeddings, documents,
                 uploads, lastUpload, op, query, sources, attempt, lastError,
                 summaries, outcome, error, result, xvars>>

\* A wait before a retry that is the same before every attempt.
WaitElapsed_Flat ==
  /\ op = "compare"
  /\ pc = "wait"
  /\ log' = Append(log, Wait(FirstWait))
  /\ pc' = "fetch"
  /\ UNCHANGED <<ver, isProduction, worker, chunksWithEmbeddings, documents,
                 uploads, lastUpload, op, query, sources, attempt, lastError,
                 summaries, outcome, error, result, xvars>>

\* The wait before a retry: attempt === 1 ? 10000 : 30000
WaitElapsed ==
  /\ op = "compare"
  /\ pc = "wait"
  /\ log' = Append(log, Wait(IF attempt = 1 THEN FirstWait ELSE SecondWait))
  /\ pc' = "fetch"
  /\ UNCHANGED <<ver, isProduction, worker, chunksWithEmbeddings, documents,
                 uploads, lastUpload, op, query, sources, attempt, lastError,
                 summaries, outcome, error, result, xvars>>

IsRateLimit(e) == e.kind \in {"RateLimit", "RateLimitRetrying"}

\* A response check without the special case for status 429.
CompareThrows_No429(resp) ==
  IF resp.status = 0 THEN Err("NetworkError")
  ELSE IF ~IsOk(resp) THEN Err("CompareError")
  ELSE IF ~resp.json THEN Err("SyntaxError")
  ELSE IF resp.error THEN Err("ApiBodyError")
  ELSE IF resp.choices # "present" THEN Err("InvalidResponse")
  ELSE IF resp.content = <<>> THEN Err("NoContent")
  ELSE NoError

\* What the try block of compareDocuments throws on a response other than a
\* 429 inside the retry loop (NoError when it returns a result).
CompareThrows(resp) ==
  IF resp.status = 0 THEN Err("NetworkError")
  ELSE IF ~IsOk(resp)
  THEN IF resp.status = 429 THEN Err("RateLimit") ELSE Err("CompareError")
  ELSE IF ~resp.json THEN Err("SyntaxError")
  ELSE IF resp.error THEN Err("ApiBodyError")
  ELSE IF resp.choices # "present" THEN Err("InvalidResponse")
  ELSE IF resp.content = <<>> THEN Err("NoContent")
  ELSE NoError

\* The end of one iteration that did not return: attempt++, then the loop
\* test, then either the next iteration or throw lastError.
NextAttempt(last) ==
  /\ attempt' = attempt + 1
  /\ lastError' = last
  /\ IF attempt + 1 < maxRetries(ver)
     THEN Pending(IF ver = "p001" THEN "wait" ELSE "fetch")
     ELSE Settled("rejected", last, NoResult)

\* The fetch of compareDocuments settles with resp.
CompareFetched(resp) ==
  /\ op = "compare"
  /\ pc = "fetch"
  /\ log' = Append(log, Call(resp))
  /\ LET thrown == CompareThrows(resp)
     IN IF thrown = NoError
        THEN /\ Settled("resolved", NoError, ExtractCompare(ver, resp.content))
             /\ UNCHANGED <<attempt, lastError>>
        ELSE IF ~HasLoop(ver)
        THEN /\ Settled("rejected", thrown, NoResult)
             /\ UNCHANGED <<attempt, lastError>>
        ELSE IF resp.status = 429
        THEN NextAttempt(Err("RateLimitRetrying"))
        ELSE IF lastError # NoError /\ attempt < maxRetries(ver) - 1
        THEN NextAttempt(lastError)
        ELSE NextAttempt(thrown)
  /\ UNCHANGED <<ver, isProduction, worker, chunksWithEmbeddings, documents,
                 uploads, lastUpload, op, query, sources, summaries, xvars>>

(***************************************************************************)
(* detectContradictionsAndGaps, debateDocuments, assistWriting (part_002). *)
(***************************************************************************)
\* What the try block of the three operations throws on a response: they
\* test response.ok only, and read data.choices[0] unguarded.
PlainThrows(o, resp) ==
  IF resp.status = 0 THEN Err("NetworkError")
  ELSE IF ~IsOk(resp)
  THEN Err(CASE o = "detect" -> "DetectError"
             [] o = "debate" -> "DebateError"
             [] OTHER -> "AssistError")
  ELSE IF ~resp.json THEN Err("SyntaxError")
  ELSE IF resp.choices = "absent" THEN Err("TypeError")
  ELSE NoError

\* data.choices[0]?.message?.content || ''
ContentOf(resp) == IF resp.choices = "present" THEN resp.content ELSE <<>>

Name(doc) == doc.name

\* The fetch of detectContradictionsAndGaps or debateDocuments settles.
SynthesisFetched(resp) ==
  /\ op \in {"detect", "debate"}
  /\ pc = "fetch"
  /\ log' = Append(log, Call(resp))
  /\ LET thrown == PlainThrows(op, resp)
     IN IF thrown # NoError
        THEN Settled("rejected", thrown, NoResult)
        ELSE Settled("resolved", NoError,
                     IF op = "detect" THEN ExtractDetect(ContentOf(resp))
                     ELSE ExtractDebate(ContentOf(resp),
                                        MapSeq(documents, Name)))
  /\ UNCHANGED <<ver, isProduction, worker, chunksWithEmbeddings, documents,
                 uploads, lastUpload, op, query, sources, attempt, lastError,
                 summaries, xvars>>

\* The first fetch of assistWriting settles.
AssistFetched(resp) ==
  /\ op = "assist"
  /\ pc = "fetch"
  /\ log' = Append(log, Call(resp))
  /\ LET thrown == PlainThrows(op, resp)
     IN IF thrown # NoError
        THEN Settled("rejected", thrown, NoResult)
        ELSE Pending("delay")
  /\ UNCHANGED <<ver, isProduction, worker, chunksWithEmbeddings, documents,
                 uploads, lastUpload, op, query, sources, attempt, lastError,
                 summaries, xvars>>

DEFAULT_SUGGESTIONS ==
  << <<Tok("Revisa la coherencia del texto", 30)>>,
     <<Tok("Verifica los datos mencionados", 30)>>,
     <<Tok("Considera agregar ejemplos", 26)>> >>

MaxSuggestions == 3

\* split('\n').map(trim).filter(s => s.length > 10).slice(0, 3)
Suggestions(text) ==
  LET Long(x) == StrLen(x) > MinItemLen
      found == Take(SelectSeq(MapSeq(Split(text), Trim), Long), MaxSuggestions)
  IN IF found # <<>> THEN found ELSE DEFAULT_SUGGESTIONS

\* The suggestions fetch of assistWriting settles.
SuggestionsFetched(resp) ==
  /\ op = "assist"
  /\ pc = "suggest"
  /\ log' = Append(log, Call(resp))
  /\ LET generatedText == ContentOf(log[1].resp)
         thrown == IF IsOk(resp) THEN PlainThrows(op, resp)
                   ELSE IF resp.status = 0 THEN Err("NetworkError")
                   ELSE NoError
     IN IF thrown # NoError
        THEN Settled("rejected", thrown, NoResult)
        ELSE Settled("resolved", NoError,
                     [generatedText |-> generatedText,
                      suggestions |-> IF IsOk(resp)
                                      THEN Suggestions(ContentOf(resp))
                                      ELSE DEFAULT_SUGGESTIONS])
  /\ UNCHANGED <<ver, isProduction, worker, chunksWithEmbeddings, documents,
                 uploads, lastUpload, op, query, sources, attempt, lastError,
                 summaries, xvars>>

\* The caller has the settled promise and the module is at rest again.
Return ==
  /\ pc = "done"
  /\ op' = "none"
  /\ pc' = "idle"
  /\ query' = <<>>
  /\ sources' = <<>>
  /\ attempt' = 0
  /\ lastError' = NoError
  /\ summaries' = <<>>
  /\ log' = <<>>
  /\ outcome' = "none"
  /\ error' = NoError
  /\ result' = NoResult
  /\ UNCHANGED <<ver, isProduction, worker, chunksWithEmbeddings, documents,
                 uploads, lastUpload, xvars>>

EmbedHows == {"result", "error", "timeout", "init"}

SummaryResponses ==
  {Ok200(PlainText), R429, NetFail, BadJson,
   Response(200, TRUE, FALSE, "absent", <<>>), Ok200(<<>>)}

Next ==
  \/ \E f \in Files, k \in 0..1, how \in EmbedHows : uploadDocument(f, k, how)
  \/ \E q \in Queries : StartQuery(q)
  \/ \E how \in EmbedHows : QueryEmbedded(how)
  \/ \E resp \in Responses({PlainText}) : QueryFetched(resp)
  \/ \E o \in {"compare", "detect", "debate", "assist"} : StartOperation(o)
  \/ \E i \in 1..MaxUploads, resp \in SummaryResponses : SummarySettled(i, resp)
  \/ DelayElapsed
  \/ WaitElapsed
  \/ \E resp \in Responses({GoodCompareText, PlainText}) : CompareFetched(resp)
  \/ \E resp \in Responses({GoodDetectText, GoodDebateText}) :
       SynthesisFetched(resp)
  \/ \E resp \in Responses({PlainText}) : AssistFetched(resp)
  \/ \E resp \in Responses({PlainText}) : SuggestionsFetched(resp)
  \/ Return

Spec == Init /\ [][Next]_vars

(***************************************************************************)
(* THE EXTRACTION SPECIFICATION: the extraction step of compareDocuments,  *)
(* detectContradictionsAndGaps and debateDocuments applied to the content  *)
(* of a successful answer, for every model text of the bounded families.   *)
(***************************************************************************)
OFixed ==
  /\ ver = "none"
  /\ isProduction = FALSE
  /\ worker = "null"
  /\ chunksWithEmbeddings = <<>>
  /\ documents = <<>>
  /\ uploads = 0
  /\ lastUpload = "none"
  /\ op = "none"
  /\ pc = "idle"
  /\ query = <<>>
  /\ sources = <<>>
  /\ attempt = 0
  /\ lastError = NoError
  /\ summaries = <<>>
  /\ log = <<>>
  /\ outcome = "none"
  /\ error = NoError
  /\ result = NoResult

XInit ==
  /\ xin \in FreeInputs \cup FormedInputs \cup RepeatedInputs \cup ListInputs
            \cup DebateInputs
  /\ content = Render(xin)
  /\ xop = "none"
  /\ xver = "none"
  /\ xres = NoResult
  /\ OFixed
  /\ EFixed
  /\ UFixed

\* compareDocuments reaches its extraction only with non-empty content.
ParseCompare(rev) ==
  /\ xop = "none"
  /\ content # <<>>
  /\ xop' = "compare"
  /\ xver' = rev
  /\ xres' = ExtractCompare(rev, content)
  /\ UNCHANGED <<xin, content, ovars>>

ParseDetect ==
  /\ xop = "none"
  /\ xop' = "detect"
  /\ xver' = "p002"
  /\ xres' = ExtractDetect(content)
  /\ UNCHANGED <<xin, content, ovars>>

ParseDebate ==
  /\ xop = "none"
  /\ xop' = "debate"
  /\ xver' = "p002"
  /\ xres' = ExtractDebate(content, <<NameA, NameAB>>)
  /\ UNCHANGED <<xin, content, ovars>>

XNext ==
  \/ \E rev \in {"rag", "p001", "p002"} : ParseCompare(rev)
  \/ ParseDetect
  \/ ParseDebate

SpecExtract == XInit /\ [][XNext]_vars

(***************************************************************************)
(* THE SPECIFICATION OF THE PURE FUNCTIONS: splitIntoChunks,               *)
(* cosineSimilarity and the two rankings, each applied to an argument      *)
(* drawn from a bounded family.                                            *)
(***************************************************************************)
MaxWords == 5

MaxSize == 3

\* A text of n words W(1) .. W(n), with white space before, between and
\* after them.
ChunkText(lead, n, sep, trail) ==
  lead \o Join([i \in 1..n |-> <<W(i)>>], sep) \o trail

ChunkInputs ==
  { [kind |-> "chunks", lead |-> lead, n |-> n, size |-> size, over |-> over,
     text |-> ChunkText(lead, n, sep, trail)] :
      lead \in {<<>>, <<SP>>, <<NL, SP>>},
      n \in 0..MaxWords,
      sep \in {<<SP>>, <<SP, NL>>},
      trail \in {<<>>, <<SP>>, <<NL, NL>>},
      size \in 1..MaxSize,
      over \in 0..(MaxSize - 1) }

\* Vectors of three components, the zero vector among them.
Vectors == {<<a, b, c>> : a \in -1..1, b \in -1..1, c \in -1..1}

VectorInputs == { [kind |-> "cosine", a |-> a, b |-> b] : a \in Vectors, b \in Vectors }

MaxStore == 4

StoreVectors == {<<1, 0, 0>>, <<0, 1, 0>>, <<1, 1, 0>>, <<-1, 0, 0>>, <<1, 1, 1>>}

\* A store that is not empty (an empty one sends findRelevantChunks to the
\* lexical ranking and makes queryDocuments throw) whose i-th entry belongs
\* to document i and has the i-th vector of vs.
StoreOf(rev, vs) ==
  [i \in 1..Len(vs) |->
     [text |-> <<W(i)>>, embedding |-> vs[i], documentId |-> i,
      documentName |-> IF rev = "p002" THEN <<W(i)>> ELSE UNDEFINED]]

RankInputs ==
  { [kind |-> "semantic", rev |-> rev, q |-> q, store |-> StoreOf(rev, vs)] :
      rev \in {"rag", "p002"},
      q \in {<<1, 0, 0>>, <<1, 1, 0>>},
      vs \in SeqsUpTo(StoreVectors, MaxStore) \ {<<>>} }

ALFA == Tok("alfa", 4)

BETA == Tok("beta", 4)

LEY == Tok("ley", 3)

DE == Tok("de", 2)

LexQueries ==
  { <<ALFA>>, <<Tok("ALFA", 4)>>, <<LEY>>, <<DE>>, <<ALFA, SP, BETA>>,
    <<DE, SP, LEY>>, <<LEY, SP, ALFA>> }

LexChunks ==
  { <<ALFA, SP, BETA>>, <<Tok("Alfa", 4), SP, LEY>>, <<BETA, SP, DE>>,
    <<Tok("gamma", 5)>> }

\* Two documents, 1 and 2, with the given chunks.
DocsOf(as, bs) ==
  << [id |-> 1, name |-> NameA, content |-> Join(as, <<SP>>), chunks |-> as],
     [id |-> 2, name |-> NameAB, content |-> Join(bs, <<SP>>), chunks |-> bs] >>

LexInputs ==
  { [kind |-> "lexical", rev |-> rev, q |-> q, docs |-> DocsOf(as, bs)] :
      rev \in {"rag", "p002"},
      q \in LexQueries,
      as \in SeqsUpTo(LexChunks, topK),
      bs \in SeqsUpTo(LexChunks, 1) }

PInit ==
  /\ xin \in {in \in ChunkInputs : in.over < in.size} \cup VectorInputs
            \cup RankInputs \cup LexInputs
  /\ content = <<>>
  /\ xop = "none"
  /\ xver = "none"
  /\ xres = NoResult
  /\ OFixed
  /\ EFixed
  /\ UFixed

\* splitIntoChunks(text, size, over)
SplitText ==
  /\ xop = "none"
  /\ xin.kind = "chunks"
  /\ xop' = "split"
  /\ xres' = [chunks |-> splitIntoChunks(xin.text, xin.size, xin.over)]
  /\ UNCHANGED <<xin, content, xver, ovars>>

\* cosineSimilarity(a, b)
Cosine ==
  /\ xop = "none"
  /\ xin.kind = "cosine"
  /\ xop' = "cosine"
  /\ xres' = [similarity |-> cosineSimilarity(xin.a, xin.b)]
  /\ UNCHANGED <<xin, content, xver, ovars>>

\* The semantic ranking of the store against a query embedding: map to a
\* new array, sort it, slice it; the store itself is not written.
RankSemantic ==
  /\ xop \in {"none", "semantic"}
  /\ xin.kind = "semantic"
  /\ xop' = IF xop = "none" THEN "semantic" ELSE "semantic again"
  /\ xres' = [sources |-> SemanticSources(xin.rev, xin.q, xin.store, <<>>),
              before |-> IF xop = "none" THEN <<>> ELSE xres.sources]
  /\ UNCHANGED <<xin, content, xver, ovars>>

\* The lexical ranking: findRelevantChunksSimple in rag.ts, the keyword
\* search of queryDocuments in part_002.
RankLexical ==
  /\ xop = "none"
  /\ xin.kind = "lexical"
  /\ xop' = "lexical"
  /\ xres' = [sources |-> IF xin.rev = "rag"
                          THEN findRelevantChunksSimple(xin.q, xin.docs, topK)
                          ELSE KeywordSources(xin.q, xin.docs)]
  /\ UNCHANGED <<xin, content, xver, ovars>>

PNext ==
  \/ SplitText
  \/ Cosine
  \/ RankSemantic
  \/ RankLexical

SpecPure == PInit /\ [][PNext]_vars

(***************************************************************************)
(* PROPERTIES OF THE OPERATIONS (specification Spec).                      *)
(***************************************************************************)
IsCall(e) == e.ev = "call"

\* The synthesis or inference calls of the operation in progress, in order.
Calls == SelectSeq(log, IsCall)

All429(calls) == \A i \in 1..Len(calls) : calls[i].resp.status = 429

\* C1: in compareDocuments, a response that fails for a reason other than
\* HTTP 429 ends the operation: no later call of the same operation follows
\* it, whatever the attempt budget.
C1_NoCallAfterFailure ==
  op = "compare" =>
    \A i \in 1..Len(Calls) :
      i < Len(Calls) => CompareThrows(Calls[i].resp) = Err("RateLimit")

\* C2: outside production, queryDocuments with at least one document that
\* has chunks is never rejected because embedding is unavailable (store
\* empty, time-out, worker error, worker not constructed).
C2_NeverRejectsForEmbedding ==
  ( /\ op = "query"
    /\ ~isProduction
    /\ \E i \in 1..Len(documents) : documents[i].chunks # <<>>
    /\ outcome = "rejected" )
  => error.kind \notin {"NoEmbeddings", "WorkerError", "EmbeddingTimeout",
                        "WorkerInit"}

\* C3: when the inference service answers queryDocuments with 429 the
\* caller receives the rate-limit error, with another non-2xx status the
\* API error carrying that status: the error raised, not another one.
C3_ErrorReachesCaller ==
  ( /\ op = "query"
    /\ pc = "done"
    /\ Calls # <<>>
    /\ Calls[1].resp.status # 0
    /\ ~IsOk(Calls[1].resp) )
  => /\ outcome = "rejected"
     /\ error = IF Calls[1].resp.status = 429 THEN Err("RateLimit")
                ELSE ApiErr(Calls[1].resp.status)

\* C4: with the 3-attempt budget, after [429] and after [429, 429] the
\* operation is still in progress, and on [429, 429, 200 with a well-formed
\* body] it resolves, after exactly these three calls, with the result
\* extracted from the body of the third.
C4_RetryThenSuccess ==
  (op = "compare" /\ ver = "p001") =>
    /\ (Len(Calls) \in 1..2 /\ All429(Calls)) => outcome = "pending"
    /\ ( /\ Len(Calls) = 3
         /\ All429(SubSeq(Calls, 1, 2))
         /\ Calls[3].resp = Ok200(GoodCompareText) )
       => /\ pc = "done"
          /\ outcome = "resolved"
          /\ result = [similarities |-> <<LongItem>>,
                       differences |-> <<LongItem>>,
                       summary |-> <<W(11), SP, W(11)>>]

C4_Witness ==
  /\ op = "compare"
  /\ ver = "p001"
  /\ outcome = "resolved"
  /\ Len(Calls) = 3
  /\ All429(SubSeq(Calls, 1, 2))
  /\ Calls[3].resp = Ok200(GoodCompareText)

\* C5: compareDocuments never issues more calls than its budget (3 in
\* part_001, 1 elsewhere); while every response so far was a 429 and the
\* budget is not used up it goes on; when every response of the budget was
\* a 429 it rejects with the rate-limit error; and whenever it settles with
\* the budget used up and the last response a 429, it rejects with the
\* rate-limit error.
C5_RateLimitAfterBudget ==
  op = "compare" =>
    LET budget == IF ver = "p001" THEN 3 ELSE 1
        n == Len(Calls)
    IN /\ n <= budget
       /\ (n \in 1..(budget - 1) /\ All429(Calls)) => outcome = "pending"
       /\ (n = budget /\ Calls[n].resp.status = 429)
          => /\ pc = "done"
             /\ outcome = "rejected"
             /\ IsRateLimit(error)

C5_Witness ==
  /\ op = "compare"
  /\ ver = "p001"
  /\ Len(Calls) = 3
  /\ All429(Calls)
  /\ outcome = "rejected"
  /\ IsRateLimit(error)

\* C6: an operation never resolves after a 2xx response whose body has an
\* empty choices list or carries an error object.
C6_BadBodyIsRaised ==
  ( /\ pc = "done"
    /\ \E i \in 1..Len(Calls) :
         /\ IsOk(Calls[i].resp)
         /\ Calls[i].resp.json
         /\ (Calls[i].resp.choices = "empty" \/ Calls[i].resp.error) )
  => outcome = "rejected"

(***************************************************************************)
(* PROPERTIES OF THE EXTRACTION (specification SpecExtract).               *)
(***************************************************************************)
\* C7: the summary compareDocuments and detectContradictionsAndGaps return,
\* and the conclusion debateDocuments returns, is never the empty string.
C7_NeverEmpty ==
  /\ xop \in {"compare", "detect"} => StrLen(xres.summary) > 0
  /\ xop = "debate" => StrLen(xres.conclusion) > 0

\* C8: when the text has the line 'VACIOS DE INFORMACION:' (with its
\* accents, as the prompt writes it) followed by a bulleted line of more
\* than the minimum length, detectContradictionsAndGaps returns that line
\* among the gaps.
C8_GapsCaptured ==
  ( /\ xop = "detect"
    /\ \E p \in 1..Len(content) :
         /\ p + 5 <= Len(content)
         /\ SubSeq(content, p, p + 5) = <<L_VAC, COLON, NL, DASH, SP, W(11)>> )
  => \E i \in 1..Len(xres.gaps) : xres.gaps[i].description = <<W(11)>>

\* C9: for a text of three well-formed sections, compareDocuments of rag.ts
\* returns as similarities and differences the bullet items of the first
\* and second section (those longer than the minimum length, at most five,
\* in order, without marker) and as summary the paragraph of the third
\* (its lines joined by spaces; the generic message if that is shorter than
\* the minimum length).
C9_FormedRoundTrip ==
  ( /\ xop = "compare"
    /\ xver = "rag"
    /\ xin.formed
    /\ xin.sims # <<>>
    /\ xin.difs # <<>> ) =>
    LET Text(it) == it.text
        Long(x) == StrLen(x) > 10
        Spaced(t) == IF t = NL THEN SP ELSE t
        paragraph == MapSeq(xin.para, Spaced)
    IN /\ xres.similarities = Take(SelectSeq(MapSeq(xin.sims, Text), Long), 5)
       /\ xres.differences = Take(SelectSeq(MapSeq(xin.difs, Text), Long), 5)
       /\ xres.summary = IF StrLen(paragraph) < 10 THEN GENERIC_COMPARE
                         ELSE paragraph

\* C10: for a non-empty text with none of the labels SIMILITUDES,
\* DIFERENCIAS, RESUMEN, compareDocuments returns empty lists and as
\* summary the first 200 characters of the text followed by '...', or the
\* generic message when that fallback has fewer than 10 characters.
C10_NoLabelFallback ==
  ( /\ xop = "compare"
    /\ \A p \in 1..Len(content) : content[p] \notin {L_SIM, L_DIF, L_RES} )
  => LET total == StrLen(content)
         kept == IF total < 200 THEN total ELSE 200
         s == xres.summary
         n == Len(s)
     IN /\ xres.similarities = <<>>
        /\ xres.differences = <<>>
        /\ IF kept + 3 < 10 THEN s = GENERIC_COMPARE
           ELSE /\ s[n] = ELLIPSIS
                /\ StrLen(s) = kept + 3
                /\ \A i \in 1..(n - 2) : s[i] = content[i]
                /\ n > 1 => \/ s[n - 1] = content[n - 1]
                            \/ /\ s[n - 1].k = content[n - 1].k
                               /\ s[n - 1].n < content[n - 1].n

C10_Witness ==
  /\ xop = "compare"
  /\ \A p \in 1..Len(content) : content[p] \notin {L_SIM, L_DIF, L_RES}
  /\ StrLen(content) > 200
  /\ StrLen(xres.summary) = 203
  /\ xres.similarities = <<>>

\* C11: every list an extraction returns has at most a fixed number of
\* items: similarities and differences of compareDocuments at most 5
\* (rag.ts) or 10 (later revisions), contradictions and gaps of
\* detectContradictionsAndGaps at most 10, the largest limit of the program.
C11_ListsCapped ==
  /\ xop = "compare" =>
       LET cap == IF xver = "rag" THEN 5 ELSE 10
       IN Len(xres.similarities) <= cap /\ Len(xres.differences) <= cap
  /\ xop = "detect" =>
       Len(xres.contradictions) <= 10 /\ Len(xres.gaps) <= 10

(***************************************************************************)
(* PROPERTIES OF THE PURE FUNCTIONS (specification SpecPure).              *)
(***************************************************************************)
\* C12: for window size S and overlap O with 0 < O < S, the first S - O
\* words of each chunk of splitIntoChunks(T, S, O), concatenated in order,
\* are the words of T, and no chunk is empty after trimming.
C12_ChunksReassemble ==
  (xop = "split" /\ xin.over > 0) =>
    LET step == xin.size - xin.over
        NotEmpty(w) == w # <<>>
        FirstWords(chunk) == Take(SelectSeq(SplitWords(chunk), NotEmpty), step)
    IN /\ Flatten(MapSeq(xres.chunks, FirstWords)) = [i \in 1..xin.n |-> <<W(i)>>]
       /\ \A k \in 1..Len(xres.chunks) : Trim(xres.chunks[k]) # <<>>

\* C13: for 0 <= overlap < size, splitIntoChunks of a text of n words
\* returns exactly ceil(n / (size - overlap)) chunks, and the k-th chunk
\* starts with the word at which the k-th window starts.
C13_ChunkCount ==
  xop = "split" =>
    LET step == xin.size - xin.over
    IN /\ Len(xres.chunks) = (xin.n + step - 1) \div step
       /\ \A k \in 1..Len(xres.chunks) :
            Head(xres.chunks[k]) = W((k - 1) * step + 1)

\* C14: cosineSimilarity returns 0, and not NaN, when either argument has
\* zero magnitude.
C14_ZeroVectorGivesZero ==
  (xop = "cosine" /\ (Dot(xin.a, xin.a) = 0 \/ Dot(xin.b, xin.b) = 0)) =>
    /\ ~IsNaN(xres.similarity)
    /\ xres.similarity.dot = 0

\* The text a Source shows for a chunk: the chunk itself, or its preview.
Shown(rev, chunk) ==
  IF rev = "rag" THEN chunk ELSE Slice(chunk, PreviewChars) \o <<ELLIPSIS>>

\* The Sources of the result that come from chunk c of document d.
SourcesOf(d, c) ==
  {i \in 1..Len(xres.sources) :
     /\ xres.sources[i].documentId = xin.docs[d].id
     /\ xres.sources[i].text = Shown(xin.rev, xin.docs[d].chunks[c])}

\* The chunks of the input, as pairs <<document, chunk>>.
LexPairs == {<<d, c>> \in (1..2) \X (1..topK) : c <= Len(xin.docs[d].chunks)}

\* The words of the query the ranking counts.
LexTokens == QueryWords(xin.q, MinTokenLength(xin.rev))

HasToken(d, c, i) == Includes(toLowerCase(xin.docs[d].chunks[c]), LexTokens[i])

HasEvery(d, c) == \A i \in 1..Len(LexTokens) : HasToken(d, c, i)

HasNone(d, c) == \A i \in 1..Len(LexTokens) : ~HasToken(d, c, i)

\* C15: in lexical ranking, for a query with at least one counted token
\* (longer than 2 characters in findRelevantChunksSimple): a chunk that
\* contains every counted token scores exactly 1 (and is returned when no
\* more than topK chunks do), a chunk that contains none is not in the
\* result, every returned Source has 0 < similarity <= 1, and when only the
\* first document contains a token every returned Source belongs to it.
C15_LexicalScores ==
  (xop = "lexical" /\ LexTokens # <<>>) =>
    /\ \A i \in 1..Len(xres.sources) :
         /\ 0 < xres.sources[i].similarity.num
         /\ xres.sources[i].similarity.num <= xres.sources[i].similarity.den
    /\ \A p \in LexPairs :
         /\ HasEvery(p[1], p[2]) =>
              /\ \A i \in SourcesOf(p[1], p[2]) :
                   xres.sources[i].similarity.num = xres.sources[i].similarity.den
              /\ Cardinality({r \in LexPairs : HasEvery(r[1], r[2])}) <= topK
                   => SourcesOf(p[1], p[2]) # {}
         /\ HasNone(p[1], p[2]) => SourcesOf(p[1], p[2]) = {}
    /\ (\A p \in LexPairs : p[1] = 2 => HasNone(p[1], p[2])) =>
         \A i \in 1..Len(xres.sources) : xres.sources[i].documentId = xin.docs[1].id

\* findRelevantChunksSimple has returned a chunk with every token and a
\* chunk with one token of two, all of the first document, the second
\* document holding a chunk with no token.
C15_Witness ==
  /\ xop = "lexical"
  /\ xin.rev = "rag"
  /\ Len(LexTokens) = 2
  /\ \E i, j \in 1..Len(xres.sources) :
       /\ xres.sources[i].similarity = Ratio(2, 2)
       /\ xres.sources[j].similarity = Ratio(1, 2)
  /\ \E p \in LexPairs : p[1] = 2 /\ HasNone(p[1], p[2])
  /\ \A i \in 1..Len(xres.sources) : xres.sources[i].documentId = xin.docs[1].id

RECURSIVE Product(_)
Product(ns) == IF ns = <<>> THEN 1 ELSE Head(ns) * Product(Tail(ns))

\* The similarity of the i-th entry of the store to the query, brought to
\* the denominator all entries share: sign(dot) * dot^2 / |b_i|^2 times
\* the product of every |b_j|^2.
SimilarityKey(i) ==
  LET d == Dot(xin.q, xin.store[i].embedding)
      others == [j \in 1..Len(xin.store) |->
                   IF j = i THEN 1 ELSE Dot(xin.store[j].embedding, xin.store[j].embedding)]
  IN (IF d < 0 THEN -1 ELSE 1) * d * d * Product(others)

C17_SimilarityInUnitRange ==
  /\ xop \in {"semantic", "semantic again"} =>
       \A i \in 1..Len(xres.sources) :
         LET sim == xres.sources[i].similarity
         IN /\ ~IsNaN(sim)
            /\ 0 <= sim.dot
            /\ sim.dot * sim.dot <= sim.magA * sim.magB
  /\ xop = "lexical" =>
       \A i \in 1..Len(xres.sources) :
         LET sim == xres.sources[i].similarity
         IN sim.den > 0 /\ 0 <= sim.num /\ sim.num <= sim.den

(***************************************************************************)
(* PROPERTIES OF THE SUMMARIES, OF THE DOCUMENT CHECKS AND OF THE UPLOAD   *)
(* (specification Spec).                                                   *)
(***************************************************************************)
IsSummary(e) == e.ev = "summary"

\* An answer generateDocumentSummary gets no summary from.
NoSummaryIn(resp) ==
  \/ resp.status < 200
  \/ resp.status > 299
  \/ ~resp.json
  \/ resp.choices # "present"
  \/ resp.content = <<>>

\* C18: generateDocumentSummary never rejects: a non-2xx response, a network
\* failure, an unparsable body, a missing choices list or an empty content
\* gives the placeholder 'Documento: <name>'; while the summaries settle
\* and during the delay after them compareDocuments,
\* detectContradictionsAndGaps and debateDocuments stay pending, and none of
\* them ends before its synthesis call was issued.
C18_SummaryNeverRejects ==
  summaries # <<>> =>
    /\ op \in {"compare", "detect", "debate"}
    /\ \A i \in 1..Len(log) :
         IsSummary(log[i]) =>
           summaries[log[i].doc] =
             IF NoSummaryIn(log[i].resp) THEN "placeholder" ELSE "text"
    /\ pc \in {"summaries", "delay"} => outcome = "pending"
    /\ pc \notin {"summaries"} =>
         \A d \in 1..Len(documents) : summaries[d] # "pending"
    /\ pc \notin {"summaries", "delay", "fetch"} => Calls # <<>>

\* Every summary call of a detection failed, each in another way, and the
\* operation resolved after its synthesis call.
C18_Witness ==
  /\ op = "detect"
  /\ pc = "done"
  /\ outcome = "resolved"
  /\ Len(summaries) = 2
  /\ \A d \in 1..2 : summaries[d] = "placeholder"
  /\ \E i, j \in 1..Len(log) :
       /\ IsSummary(log[i]) /\ log[i].resp = NetFail
       /\ IsSummary(log[j]) /\ log[j].resp = BadJson
  /\ Len(Calls) = 1

\* C19: an operation called with too few documents (fewer than 2 for
\* compareDocuments, detectContradictionsAndGaps and debateDocuments, none
\* for assistWriting and queryDocuments) rejects at once with its
\* insufficient-documents error: no HTTP call, no embedding request, no
\* delay, and the embedding store, the worker and the documents unchanged.
C19_TooFewDocumentsRejects ==
  [][ ( /\ op = "none"
        /\ op' # "none"
        /\ Len(documents) < (IF op' \in {"assist", "query"} THEN 1 ELSE 2) )
      => /\ pc' = "done"
         /\ outcome' = "rejected"
         /\ error' = Err(IF op' = "query" THEN "NoDocuments" ELSE "NotEnoughDocuments")
         /\ result' = NoResult
         /\ log' = <<>>
         /\ summaries' = <<>>
         /\ chunksWithEmbeddings' = chunksWithEmbeddings
         /\ worker' = worker
         /\ documents' = documents ]_vars

\* A debate over a single document, whose chunk is in the store, has been
\* rejected.
C19_Witness ==
  /\ op = "debate"
  /\ Len(documents) = 1
  /\ chunksWithEmbeddings # <<>>
  /\ pc = "done"
  /\ outcome = "rejected"
  /\ error = Err("NotEnoughDocuments")
  /\ log = <<>>

\* C20: uploadDocument of a file whose extracted text is empty or only
\* whitespace rejects with the empty-document error before chunking: no
\* embedding request (the worker is not created, nothing is pushed to the
\* store), and the documents and store entries of other uploads stay as
\* they are.
C20_EmptyUploadRejects ==
  [][ \A f \in Files, k \in 0..1, how \in EmbedHows :
        ( /\ uploadDocument(f, k, how)
          /\ \A p \in 1..Len(f.text) : IsSpace(f.text[p]) )
        => /\ lastUpload' = "EmptyDocument"
           /\ chunksWithEmbeddings' = chunksWithEmbeddings
           /\ worker' = worker
           /\ documents' = documents ]_vars

\* An empty upload was rejected after a document had been uploaded and
\* its chunk stored.
C20_Witness ==
  /\ lastUpload = "EmptyDocument"
  /\ Len(documents) = 1
  /\ chunksWithEmbeddings # <<>>
  /\ worker = "created"
  /\ uploads = 2

(***************************************************************************)
(* PROPERTIES OF THE ORDER OF CALLS AND WAITS (specification Spec).        *)
(***************************************************************************)
\* C23: in the summarize-then-synthesize compareDocuments,
\* detectContradictionsAndGaps and debateDocuments, a synthesis call is
\* issued only after the summary call of every document has settled, in
\* whatever order, and the delay of 1 s has elapsed after the last of them;
\* each document has one summary call, and the i-th summary is the one made
\* of the answer to the i-th document's call.
C23_SynthesisAfterSummaries ==
  (ver \in {"p000", "p002"} /\ op \in {"compare", "detect", "debate"}) =>
    /\ \A p, q \in 1..Len(log) :
         (IsSummary(log[p]) /\ IsSummary(log[q]) /\ log[p].doc = log[q].doc)
           => p = q
    /\ \A p \in 1..Len(log) :
         IsCall(log[p]) =>
           /\ \A d \in 1..Len(documents) :
                \E q \in 1..(p - 1) :
                  /\ IsSummary(log[q])
                  /\ log[q].doc = d
                  /\ summaries[d] = SummaryOf(log[q].resp)
           /\ \E w \in 1..(p - 1) :
                /\ log[w].ev = "wait"
                /\ log[w].ms = 1000
                /\ \A q \in 1..Len(log) : IsSummary(log[q]) => q < w

\* The summary of the second document settled before that of the first,
\* with different outcomes, and the synthesis call followed the delay.
C23_Witness ==
  /\ ver = "p002"
  /\ op = "debate"
  /\ Len(log) = 4
  /\ IsSummary(log[1]) /\ log[1].doc = 2
  /\ IsSummary(log[2]) /\ log[2].doc = 1
  /\ log[3].ev = "wait"
  /\ IsCall(log[4])
  /\ summaries = <<"placeholder", "text">>

\* The number of synthesis calls among the first p events of the log.
CallsUpTo(p) == Cardinality({q \in 1..p : IsCall(log[q])})

\* C24: compareDocuments issues its first synthesis call without a retry
\* wait, in the 3-attempt revision the second only after a wait of 10 s and
\* the third only after a wait of 30 s, and never more calls than its
\* budget: 3 in the 3-attempt revision, 1 in every other, where a 429 is
\* not retried.
C24_WaitsAndBudget ==
  op = "compare" =>
    /\ Len(Calls) <= (IF ver = "p001" THEN 3 ELSE 1)
    /\ \A p \in 1..Len(log) :
         IsCall(log[p]) =>
           CASE CallsUpTo(p) = 1 ->
                  \A q \in 1..(p - 1) : log[q].ev = "wait" => log[q].ms < 10000
             [] CallsUpTo(p) = 2 ->
                  /\ log[p - 1].ev = "wait" /\ log[p - 1].ms = 10000
                  /\ IsCall(log[p - 2])
             [] OTHER ->
                  /\ log[p - 1].ev = "wait" /\ log[p - 1].ms = 30000
                  /\ IsCall(log[p - 2])

\* Three calls of one comparison, all answered 429, with the two waits
\* between them.
C24_Witness ==
  /\ ver = "p001"
  /\ op = "compare"
  /\ Len(Calls) = 3
  /\ All429(Calls)
  /\ log = <<Call(R429), Wait(10000), Call(R429), Wait(30000), Call(R429)>>
  /\ outcome = "rejected"

\* C29: queryDocuments issues its inference call only when retrieval
\* returned at least one Source; when it returned none the operation
\* resolves with the fixed answer 'No se encontro informacion relevante'
\* and an empty sources list, without any HTTP call.
C29_NoCallWithoutSources ==
  op = "query" =>
    /\ Calls # <<>> => sources # <<>>
    /\ (pc = "done" /\ outcome = "resolved" /\ sources = <<>>) =>
         /\ result = QueryResponse(NO_INFO, <<>>)
         /\ log = <<>>

(***************************************************************************)
(* PROPERTIES OF THE DEBATE EXTRACTION (specification SpecExtract).        *)
(***************************************************************************)
\* C25: debateDocuments returns at most one round per document, in document
\* order and under the document's display name: a document has a round
\* exactly when the text holds a round labelled with exactly its name, and
\* the round says what that labelled round says.
C25_RoundsOfOwnLabel ==
  (xop = "debate" /\ "rounds" \in DOMAIN xin) =>
    LET Labelled(name) == \E i \in 1..Len(xin.rounds) : xin.rounds[i] = name
        expected == SelectSeq(<<NameA, NameAB>>, Labelled)
    IN /\ Len(xres.rounds) = Len(expected)
       /\ \A i \in 1..Len(xres.rounds) :
            /\ i <= Len(expected)
            /\ xres.rounds[i].documentName = expected[i]
            /\ xres.rounds[i].position = RoundText(expected[i])

(***************************************************************************)
(* THE EMBEDDING PROTOCOL (specification SpecEmbed): generateEmbedding on  *)
(* the main thread, the message listener and PipelineSingleton inside the  *)
(* worker, and the loop of uploadDocument that embeds chunk after chunk.   *)
(* Its callers await each call, so a call is issued only when the one      *)
(* before it has settled.  The revisions differ in two places: part_003    *)
(* has no timer in generateEmbedding and no try/catch around the loop.     *)
(*   embedCalls   the generateEmbedding calls made so far, in order        *)
(*   toWorker     the generate-embedding messages posted and not yet       *)
(*                dispatched in the worker                                 *)
(*   toMain       the messages the worker posted and the main thread has   *)
(*                not yet dispatched                                       *)
(*   handlers     the runs of the worker's message listener                *)
(*   instance     PipelineSingleton.instance                               *)
(*   uploading    the uploadDocument in progress                           *)
(***************************************************************************)
MaxEmbedCalls == 3

HasTimeout(rev) == rev # "p003"

CatchesEmbedError(rev) == rev # "p003"

\* The chunk lists of the documents uploaded, and the question asked.
EmbedDocs == { << <<ALFA>>, <<BETA>> >>, << <<ALFA, SP, BETA>> >> }

EmbedQuery == <<BETA, SP, BETA>>

\* Neither the operations nor the extraction nor the interface take part.
quiet == <<isProduction, attempt, lastError, summaries, log, outcome, error,
           result, xin, content, xop, xver, xres, uvars>>

EInit ==
  /\ ver \in {"rag", "p003"}
  /\ isProduction = FALSE
  /\ worker = "null"
  /\ chunksWithEmbeddings = <<>>
  /\ documents = <<>>
  /\ uploads = 0
  /\ lastUpload = "none"
  /\ op = "none"
  /\ pc = "idle"
  /\ query = <<>>
  /\ sources = <<>>
  /\ attempt = 0
  /\ lastError = NoError
  /\ summaries = <<>>
  /\ log = <<>>
  /\ outcome = "none"
  /\ error = NoError
  /\ result = NoResult
  /\ XFixed
  /\ EFixed
  /\ UFixed

EmbedCall(text, by) ==
  [text |-> text, by |-> by, state |-> "pending", value |-> <<>>,
   listener |-> TRUE, timer |-> HasTimeout(ver), taken |-> FALSE]

\* generateEmbedding(text): getWorker, the timer, addEventListener,
\* postMessage.
Issue(text, by) ==
  /\ Len(embedCalls) < MaxEmbedCalls
  /\ \A i \in 1..Len(embedCalls) : embedCalls[i].taken
  /\ worker' = "created"
  /\ embedCalls' = Append(embedCalls, EmbedCall(text, by))
  /\ toWorker' = Append(toWorker, text)

\* uploadDocument up to its first generateEmbedding.
StartUpload(chunks) ==
  /\ Idle
  /\ uploading.state = "none"
  /\ uploads < MaxUploads
  /\ uploads' = uploads + 1
  /\ uploading' = [state |-> "embedding", id |-> uploads + 1, chunks |-> chunks,
                   next |-> 1]
  /\ Issue(chunks[1], "upload")
  /\ UNCHANGED <<ver, chunksWithEmbeddings, documents, lastUpload, op, pc, query,
                 sources, toMain, handlers, instance, quiet>>

\* The timer of a pending call fires: removeEventListener, reject.
Timeout(i) ==
  /\ i \in 1..Len(embedCalls)
  /\ embedCalls[i].timer
  /\ embedCalls' = [embedCalls EXCEPT ![i] =
                      [@ EXCEPT !.state = "rejected", !.value = "timeout",
                                !.listener = FALSE, !.timer = FALSE]]
  /\ UNCHANGED <<ver, worker, chunksWithEmbeddings, documents, uploads,
                 lastUpload, op, pc, query, sources, toWorker, toMain, handlers,
                 instance, uploading, quiet>>

\* handleMessage of one call for one message of the worker.
handleMessage(call, msg) ==
  IF ~call.listener THEN call
  ELSE IF msg.type = "embedding-result"
  THEN [call EXCEPT !.state = "resolved", !.value = Embed(msg.text),
                    !.listener = FALSE, !.timer = FALSE]
  ELSE IF msg.type = "error"
  THEN [call EXCEPT !.state = "rejected", !.value = "error",
                    !.listener = FALSE, !.timer = FALSE]
  ELSE call

\* The main thread dispatches the next message of the worker to every
\* listener registered on it.
Deliver ==
  /\ toMain # <<>>
  /\ toMain' = Tail(toMain)
  /\ embedCalls' = [i \in 1..Len(embedCalls) |->
                      handleMessage(embedCalls[i], Head(toMain))]
  /\ UNCHANGED <<ver, worker, chunksWithEmbeddings, documents, uploads,
                 lastUpload, op, pc, query, sources, toWorker, handlers,
                 instance, uploading, quiet>>

\* chunksWithEmbeddings.push(entry)
push_Unshift(store, entry) == <<entry>> \o store

push(store, entry) == Append(store, entry)

\* The loop of uploadDocument goes on after the call it awaited: push the
\* entry and embed the next chunk or return the Document; when the call
\* rejected, return the Document all the same (the catch around the loop) or
\* reject (part_003).
UploadContinues ==
  /\ uploading.state = "embedding"
  /\ embedCalls # <<>>
  /\ LET i == Len(embedCalls)
         call == embedCalls[i]
         doc == Document(uploading.id,
                         File(NameA, Join(uploading.chunks, <<SP>>)),
                         uploading.chunks)
         entry == [StoreEntry(ver, call.text, uploading.id, NameA)
                     EXCEPT !.embedding = call.value]
         last == uploading.next = Len(uploading.chunks)
     IN /\ call.by = "upload"
        /\ ~call.taken
        /\ call.state # "pending"
        /\ IF call.state = "resolved" /\ ~last
           THEN /\ Len(embedCalls) < MaxEmbedCalls
                /\ chunksWithEmbeddings' = push(chunksWithEmbeddings, entry)
                /\ uploading' = [uploading EXCEPT !.next = @ + 1]
                /\ embedCalls' =
                     Append([embedCalls EXCEPT ![i].taken = TRUE],
                            EmbedCall(uploading.chunks[uploading.next + 1], "upload"))
                /\ toWorker' = Append(toWorker, uploading.chunks[uploading.next + 1])
                /\ UNCHANGED <<documents, lastUpload>>
           ELSE /\ embedCalls' = [embedCalls EXCEPT ![i].taken = TRUE]
                /\ uploading' = [state |-> "none"]
                /\ chunksWithEmbeddings' =
                     IF call.state = "resolved"
                     THEN push(chunksWithEmbeddings, entry)
                     ELSE chunksWithEmbeddings
                /\ IF call.state = "resolved" \/ CatchesEmbedError(ver)
                   THEN /\ documents' = Append(documents, doc)
                        /\ lastUpload' = "resolved"
                   ELSE /\ lastUpload' = "rejected"
                        /\ UNCHANGED documents
                /\ UNCHANGED toWorker
  /\ UNCHANGED <<ver, worker, uploads, op, pc, query, sources, toMain, handlers,
                 instance, quiet>>

\* queryDocuments or findRelevantChunks up to generateEmbedding(query).
StartQueryEmbed ==
  /\ Idle
  /\ uploading.state = "none"
  /\ documents # <<>>
  /\ chunksWithEmbeddings # <<>>
  /\ op' = "query"
  /\ pc' = "embed"
  /\ query' = EmbedQuery
  /\ sources' = <<>>
  /\ Issue(EmbedQuery, "query")
  /\ UNCHANGED <<ver, chunksWithEmbeddings, documents, uploads, lastUpload,
                 toMain, handlers, instance, uploading, quiet>>

\* Retrieval goes on after generateEmbedding(query): the store is ranked
\* against the vector the call resolved with; when the call rejected, the
\* keyword search takes over (rag.ts) or retrieval fails (part_003).
QueryContinues ==
  /\ op = "query"
  /\ pc = "embed"
  /\ LET i == Len(embedCalls)
         call == embedCalls[i]
     IN /\ call.by = "query"
        /\ ~call.taken
        /\ call.state # "pending"
        /\ embedCalls' = [embedCalls EXCEPT ![i].taken = TRUE]
        /\ sources' = IF call.state = "resolved"
                      THEN SemanticSources(ver, call.value, chunksWithEmbeddings,
                                           documents)
                      ELSE IF Fallback(ver)
                      THEN findRelevantChunksSimple(query, documents, topK)
                      ELSE <<>>
  /\ op' = "none"
  /\ pc' = "idle"
  /\ UNCHANGED <<ver, worker, chunksWithEmbeddings, documents, uploads,
                 lastUpload, query, toWorker, toMain, handlers, instance,
                 uploading, quiet>>

Message(type, text) == [type |-> type, text |-> text]

\* The worker dispatches a generate-embedding message: the listener runs up
\* to its first await, inside getInstance when instance is null (pipeline()
\* is called), after it otherwise.
WorkerReceives ==
  /\ toWorker # <<>>
  /\ toWorker' = Tail(toWorker)
  /\ handlers' = Append(handlers,
                        [text |-> Head(toWorker),
                         at |-> IF instance = "null" THEN "loading" ELSE "extracting",
                         constructs |-> instance = "null",
                         progress |-> FALSE,
                         answers |-> 0])
  /\ UNCHANGED <<ver, worker, chunksWithEmbeddings, documents, uploads,
                 lastUpload, op, pc, query, sources, embedCalls, toMain,
                 instance, uploading, quiet>>

\* progress_callback while the model loads.
WorkerProgress(h) ==
  /\ h \in 1..Len(handlers)
  /\ handlers[h].at = "loading"
  /\ ~handlers[h].progress
  /\ handlers' = [handlers EXCEPT ![h].progress = TRUE]
  /\ toMain' = Append(toMain, Message("progress", handlers[h].text))
  /\ UNCHANGED <<ver, worker, chunksWithEmbeddings, documents, uploads,
                 lastUpload, op, pc, query, sources, embedCalls, toWorker,
                 instance, uploading, quiet>>

\* pipeline() settles: this.instance = the pipeline, or the catch of the
\* listener posts the error.
WorkerLoaded(h, ok) ==
  /\ h \in 1..Len(handlers)
  /\ handlers[h].at = "loading"
  /\ IF ok
     THEN /\ instance' = "pipeline"
          /\ handlers' = [handlers EXCEPT ![h].at = "extracting"]
          /\ UNCHANGED toMain
     ELSE /\ handlers' = [handlers EXCEPT ![h].at = "failed", ![h].answers = @ + 1]
          /\ toMain' = Append(toMain, Message("error", handlers[h].text))
          /\ UNCHANGED instance
  /\ UNCHANGED <<ver, worker, chunksWithEmbeddings, documents, uploads,
                 lastUpload, op, pc, query, sources, embedCalls, toWorker,
                 uploading, quiet>>

\* extractor(data.text) settles: the embedding-result is posted, or the error.
WorkerExtracted(h, ok) ==
  /\ h \in 1..Len(handlers)
  /\ handlers[h].at = "extracting"
  /\ handlers' = [handlers EXCEPT ![h].at = "done", ![h].answers = @ + 1]
  /\ toMain' = Append(toMain, Message(IF ok THEN "embedding-result" ELSE "error",
                                      handlers[h].text))
  /\ UNCHANGED <<ver, worker, chunksWithEmbeddings, documents, uploads,
                 lastUpload, op, pc, query, sources, embedCalls, toWorker,
                 instance, uploading, quiet>>

ENext ==
  \/ \E chunks \in EmbedDocs : StartUpload(chunks)
  \/ \E i \in 1..MaxEmbedCalls : Timeout(i)
  \/ Deliver
  \/ UploadContinues
  \/ StartQueryEmbed
  \/ QueryContinues
  \/ WorkerReceives
  \/ \E h \in 1..MaxEmbedCalls : WorkerProgress(h)
  \/ \E h \in 1..MaxEmbedCalls, ok \in BOOLEAN : WorkerLoaded(h, ok)
  \/ \E h \in 1..MaxEmbedCalls, ok \in BOOLEAN : WorkerExtracted(h, ok)

SpecEmbed == EInit /\ [][ENext]_vars

(***************************************************************************)
(* PROPERTIES OF THE EMBEDDING PROTOCOL (specification SpecEmbed)          *)
(***************************************************************************)
\* C21: a generateEmbedding call that is still pending has its listener
\* registered and a timer that will reject it with the timeout error when
\* neither a result nor an error arrives; a call that has settled, by
\* result, error or timeout, has neither a registered listener nor a timer;
\* a resolved call carries a vector and never the timeout or the error.
C21_TimeoutAndListener ==
  \A i \in 1..Len(embedCalls) :
    LET call == embedCalls[i]
    IN /\ call.state \in {"pending", "resolved", "rejected"}
       /\ call.state = "pending" => call.listener /\ call.timer
       /\ call.state # "pending" => ~call.listener /\ ~call.timer
       /\ call.state = "rejected" => call.value \in {"timeout", "error"}

IsPrefixOf(s, t) == Len(s) <= Len(t) /\ \A i \in 1..Len(s) : s[i] = t[i]

\* The texts of the store's entries of one document, in the store's order.
TextsOf(store, id) ==
  LET Own(e) == e.documentId = id
      own == SelectSeq(store, Own)
  IN [i \in 1..Len(own) |-> own[i].text]

\* The entries of every document whose chunks are known (the upload in
\* progress and the Documents returned) are its first chunks, in chunk order.
InChunkOrder(store, docs, up) ==
  /\ \A d \in 1..Len(docs) : IsPrefixOf(TextsOf(store, docs[d].id), docs[d].chunks)
  /\ up.state # "none" => IsPrefixOf(TextsOf(store, up.id), up.chunks)

\* C22: every step of every upload and query leaves the store as it was or
\* longer by entries at its end (no entry is modified, moved or removed; the
\* ranking of a query sorts a copy), and the entries of one document are in
\* the order of that document's chunks.
C22_StoreAppendOnly ==
  [][/\ IsPrefixOf(chunksWithEmbeddings, chunksWithEmbeddings')
     /\ InChunkOrder(chunksWithEmbeddings', documents', uploading')]_vars

\* A query has ranked a store of two entries of one document the other way
\* round, and the store still has them in chunk order.
C22_Witness ==
  /\ Len(chunksWithEmbeddings) >= 2
  /\ chunksWithEmbeddings[1].text = <<ALFA>>
  /\ chunksWithEmbeddings[2].text = <<BETA>>
  /\ chunksWithEmbeddings[1].documentId = chunksWithEmbeddings[2].documentId
  /\ Len(sources) >= 2
  /\ sources[1].text = <<BETA>>
  /\ sources[2].text = <<ALFA>>

\* C26: a generateEmbedding call that resolved holds the vector of its own
\* text.
C26_OwnVector ==
  \A i \in 1..Len(embedCalls) :
    embedCalls[i].state = "resolved" => embedCalls[i].value = Embed(embedCalls[i].text)

\* C27: the store holds all the entries of a Document that was returned, one
\* for each of its chunks, or none of them; and every documentId of the store
\* is the id of a Document that was returned, or of the upload in progress.
C27_AllOrNothing ==
  /\ \A d \in 1..Len(documents) :
       Len(TextsOf(chunksWithEmbeddings, documents[d].id))
         \in {0, Len(documents[d].chunks)}
  /\ \A e \in 1..Len(chunksWithEmbeddings) :
       \/ \E d \in 1..Len(documents) :
            documents[d].id = chunksWithEmbeddings[e].documentId
       \/ /\ uploading.state # "none"
          /\ uploading.id = chunksWithEmbeddings[e].documentId

\* The runs of the worker's listener that called pipeline() and whose
\* pipeline is loading or was assigned to PipelineSingleton.instance.
Constructions ==
  { h \in 1..Len(handlers) : handlers[h].constructs /\ handlers[h].at # "failed" }

\* C28: at most one pipeline is constructed, and the listener posted exactly
\* one embedding-result or error for each generate-embedding message it has
\* finished with, none before.
C28_SingletonPipeline ==
  /\ Cardinality(Constructions) <= 1
  /\ \A h \in 1..Len(handlers) :
       handlers[h].answers = IF handlers[h].at \in {"done", "failed"} THEN 1 ELSE 0

(***************************************************************************)
(* THE CHAT OF THE INTERFACE (specification SpecUI): handleQuery and       *)
(* handleFileUpload of App, the controls that start them, and the setError *)
(* of the other handlers, which run under flags of their own.  The two     *)
(* versions of App (App.tsx, part_004) have the same handlers.             *)
(*   messages   the chat: records of role, content and sources             *)
(*   isLoading  the flag both handlers share                               *)
(*   uiError    the state `error` of App                                   *)
(*   run        the handler that is awaiting its call                      *)
(*   query      the text of the input box                                  *)
(*   documents  the Documents uploaded                                     *)
(***************************************************************************)
MaxMessages == 4

THINKING == <<ELLIPSIS>>

NoSources == "undefined"

ChatMessage(role, text, srcs) == [role |-> role, content |-> text, sources |-> srcs]

thinkingMessage == ChatMessage("assistant", THINKING, NoSources)

\* What the user types, what queryDocuments resolves with, and the messages
\* of what it or another handler rejects with.
Typed == { <<>>, <<SP>>, <<ALFA>>, <<SP, BETA>> }

UIResponses ==
  { QueryResponse(<<W(21)>>, << <<ALFA>> >>),
    QueryResponse(NO_INFO, <<>>),
    QueryResponse(THINKING, <<>>) }

UIErrors == { "Error al procesar consulta", "Rate limit" }

\* Neither the operations of the library nor the extraction take part.
still == <<ver, isProduction, worker, chunksWithEmbeddings, lastUpload, op, pc,
           sources, attempt, lastError, summaries, log, outcome, error, result,
           xin, content, xop, xver, xres, evars>>

UInit ==
  /\ OFixed
  /\ XFixed
  /\ EFixed
  /\ UFixed

\* slice(0, -1)
DropLast(s) == IF s = <<>> THEN <<>> ELSE SubSeq(s, 1, Len(s) - 1)

\* onChange of the input box, enabled only with a document and nothing
\* loading.
TypeQuery(text) ==
  /\ ~isLoading
  /\ documents # <<>>
  /\ query' = text
  /\ UNCHANGED <<documents, uploads, messages, isLoading, uiError, run, still>>

\* A suggested question is clicked: they are shown while the chat is empty.
SuggestionClicked ==
  /\ documents # <<>>
  /\ messages = <<>>
  /\ query' = <<ALFA, SP, BETA>>
  /\ UNCHANGED <<documents, uploads, messages, isLoading, uiError, run, still>>

\* handleQuery up to `await queryDocuments`; the submit button is disabled
\* while loading, with a blank query and without documents.
handleQuery ==
  /\ ~isLoading
  /\ Trim(query) # <<>>
  /\ documents # <<>>
  /\ Len(messages) + 2 <= MaxMessages
  /\ isLoading' = TRUE
  /\ uiError' = "null"
  /\ messages' = messages \o <<ChatMessage("user", query, NoSources), thinkingMessage>>
  /\ run' = "query"
  /\ UNCHANGED <<documents, uploads, query, still>>

\* queryDocuments resolved: the last message gives way to the answer.
QueryResolved(response) ==
  /\ run = "query"
  /\ messages' = DropLast(messages)
                   \o <<ChatMessage("assistant", response.answer, response.sources)>>
  /\ query' = <<>>
  /\ isLoading' = FALSE
  /\ run' = "none"
  /\ UNCHANGED <<documents, uploads, uiError, still>>

QueryRejected_KeepsThinking(err) ==
  /\ run = "query"
  /\ messages' = messages
  /\ uiError' = err
  /\ isLoading' = FALSE
  /\ run' = "none"
  /\ UNCHANGED <<documents, uploads, query, still>>

\* queryDocuments rejected: the last message is removed, the error is set.
QueryRejected(err) ==
  /\ run = "query"
  /\ messages' = DropLast(messages)
  /\ uiError' = err
  /\ isLoading' = FALSE
  /\ run' = "none"
  /\ UNCHANGED <<documents, uploads, query, still>>

\* handleFileUpload up to `await uploadDocument`; the file input is disabled
\* while loading.
handleFileUpload ==
  /\ ~isLoading
  /\ uploads < MaxUploads
  /\ isLoading' = TRUE
  /\ uiError' = "null"
  /\ run' = "upload"
  /\ UNCHANGED <<documents, uploads, query, messages, still>>

\* uploadDocument settled.
UploadSettled(ok) ==
  /\ run = "upload"
  /\ IF ok
     THEN /\ uploads' = uploads + 1
          /\ documents' = Append(documents,
                                 Document(uploads + 1, File(NameA, <<ALFA>>), << <<ALFA>> >>))
          /\ UNCHANGED uiError
     ELSE /\ uiError' = "Error al cargar documento"
          /\ UNCHANGED <<documents, uploads>>
  /\ isLoading' = FALSE
  /\ run' = "none"
  /\ UNCHANGED <<query, messages, still>>

\* handleCompare, handleDetectContradictions, handleDebate and
\* handleWritingAssist clear the error when they start and set it when they
\* fail, whatever handleQuery is doing.
OtherHandler(err) ==
  /\ uiError' = err
  /\ UNCHANGED <<documents, uploads, query, messages, isLoading, run, still>>

UNext ==
  \/ \E text \in Typed : TypeQuery(text)
  \/ SuggestionClicked
  \/ handleQuery
  \/ \E response \in UIResponses : QueryResolved(response)
  \/ \E err \in UIErrors : QueryRejected(err)
  \/ handleFileUpload
  \/ \E ok \in BOOLEAN : UploadSettled(ok)
  \/ \E err \in {"null", "Error al comparar documentos"} : OtherHandler(err)

SpecUI == UInit /\ [][UNext]_vars

(***************************************************************************)
(* PROPERTIES OF THE CHAT (specification SpecUI)                           *)
(***************************************************************************)
IsThinking(m) == m = thinkingMessage

Thinking(msgs) == { i \in 1..Len(msgs) : IsThinking(msgs[i]) }

\* What holds of the chat between the steps of the handlers.
ChatShape(msgs, loading, running) ==
  /\ running # "query" => Thinking(msgs) = {}
  /\ running = "none" => ~loading
  /\ running = "query" => loading /\ Thinking(msgs) = {Len(msgs)}

\* What the step that ends a handleQuery run does to the chat.
Completes ==
  LET before == DropLast(messages)
      asked == before[Len(before)]
  IN /\ before # <<>>
     /\ asked.role = "user"
     /\ \/ /\ Len(messages') = Len(messages)
           /\ DropLast(messages') = before
           /\ messages'[Len(messages')].role = "assistant"
           /\ messages'[Len(messages')].sources # NoSources
        \/ /\ messages' = before
           /\ uiError' # "null"

\* C30: when no handleQuery run is pending the chat has no thinking message
\* and, with no handler pending, isLoading is false; while a run is pending,
\* isLoading is true and the one thinking message is the last message; the
\* step that ends a run puts the answer with its sources in the place of the
\* thinking message, or removes it, keeps the user's message last and sets
\* the error.
C30_ThinkingReplaced ==
  [][/\ ChatShape(messages', isLoading', run')
     /\ (run = "query" /\ run' # "query") => Completes]_vars

\* A second run has failed after a first one succeeded: question, answer,
\* question, and the error set.
C30_Witness ==
  /\ run = "none"
  /\ Len(messages) = 3
  /\ messages[2].role = "assistant"
  /\ messages[2].sources # NoSources
  /\ messages[3].role = "user"
  /\ uiError \in UIErrors

=========================================================================
